---- MODULE Spec2Model ----
(***************************************************************************)
(* DeafenSfxSuppression (src/src/userplugins/deafenSfxSuppression/index.ts) *)
(* as a state machine: the host's voice state and clock, the engine's      *)
(* module-level variables, the host function table the engine patches, and *)
(* one action per handler / host call.                                     *)
(*                                                                         *)
(* JavaScript strings are sequences of one-character strings, so that      *)
(* normalisation and the regular expressions are computed, not assumed.    *)
(***************************************************************************)
EXTENDS Integers, Sequences, FiniteSets, TLC

VARIABLES
    now,                      \* Date.now()
    deaf,                     \* host: the user is self-deafened
    mediaEngineOk,            \* host: MediaEngineStore.getSelfDeaf is callable
    vc,                       \* host: SelectedChannelStore.getVoiceChannelId(), <<>> = none
    members,                  \* host: size of the voice-state mapping of vc, Absent = no mapping
    streams,                  \* host: members of vc with selfStream
    loaded,                   \* host: modules the webpack cache has resolved
    subs,                     \* host: pending waitFor subscriptions, in registration order
    fns,                      \* host function table: slot -> function value (0 = the host's own)
    isActive,
    suppressUntil,
    lastVoiceChannelId,
    lastMemberCount,
    lastStreamCount,
    patchedFunctions,
    patchedTargets,
    originalHtmlMediaPlay,
    originalAudioBufferStart,
    originalFluxDispatch,
    last,                     \* the last operation, its input and what it did
    pin,                      \* input of the string functions
    pout,                     \* their result
    sync                      \* scripts/autoSync.mjs: its environment, position and effects

vars == << now, deaf, mediaEngineOk, vc, members, streams, loaded, subs, fns,
           isActive, suppressUntil, lastVoiceChannelId, lastMemberCount,
           lastStreamCount, patchedFunctions, patchedTargets,
           originalHtmlMediaPlay, originalAudioBufferStart,
           originalFluxDispatch, last, pin, pout, sync >>

hostVars == << now, deaf, mediaEngineOk, vc, members, streams >>
engineVars == << isActive, suppressUntil, lastVoiceChannelId, lastMemberCount,
                 lastStreamCount >>
patchVars == << loaded, subs, fns, patchedFunctions, patchedTargets,
                originalHtmlMediaPlay, originalAudioBufferStart,
                originalFluxDispatch >>
strVars == << pin, pout >>
scriptVars == << sync >>

----------------------------------------------------------------------------
(* Bounds of the model *)

MaxLen == 3          \* longest string of the exhaustive string inputs
MaxSteps == 3        \* clock steps taken
MaxMembers == 1      \* largest voice-state mapping
MaxSubs == 2         \* start() calls whose waitFor subscriptions are still pending

----------------------------------------------------------------------------
(* Strings.  A JavaScript string is the sequence of its UTF-16 code units.  *)
(* A code unit is written as the character itself when it is printable     *)
(* ASCII, as "\t", "\n", "\f", "\r" for these four controls, and as         *)
(* "U+XXXX", four upper-case hexadecimal digits, otherwise.                 *)

Range(f) == { f[i] : i \in DOMAIN f }

Max(a, b) == IF a >= b THEN a ELSE b

Upper == << "A", "B", "C", "D", "E", "F", "G", "H", "I", "J", "K", "L", "M",
            "N", "O", "P", "Q", "R", "S", "T", "U", "V", "W", "X", "Y", "Z" >>
Lower == << "a", "b", "c", "d", "e", "f", "g", "h", "i", "j", "k", "l", "m",
            "n", "o", "p", "q", "r", "s", "t", "u", "v", "w", "x", "y", "z" >>
Digits == { "0", "1", "2", "3", "4", "5", "6", "7", "8", "9" }

UpperChars == Range(Upper)
LowerChars == Range(Lower)

\* the code units U+0020 .. U+007E, in order (the grave accent, which a
\* string of this language cannot hold, is written by its number)
Printable == << " ", "!", "\"", "#", "$", "%", "&", "'", "(", ")", "*", "+",
                ",", "-", ".", "/", "0", "1", "2", "3", "4", "5", "6", "7",
                "8", "9", ":", ";", "<", "=", ">", "?", "@" >>
             \o Upper \o << "[", "\\", "]", "^", "_", "U+0060" >>
             \o Lower \o << "{", "|", "}", "~" >>

HexDigits == << "0", "1", "2", "3", "4", "5", "6", "7", "8", "9",
                "A", "B", "C", "D", "E", "F" >>
LowerHexDigits == << "a", "b", "c", "d", "e", "f" >>

IsHexDigit(c) == c \in Range(HexDigits) \cup Range(LowerHexDigits)

hexDigitValue(c) ==
    IF c \in Range(LowerHexDigits)
    THEN 9 + CHOOSE i \in 1..6 : LowerHexDigits[i] = c
    ELSE (CHOOSE i \in 1..16 : HexDigits[i] = c) - 1

\* the number of a code unit (String.prototype.charCodeAt)
charCode(c) ==
    IF Len(c) > 1
    THEN 4096 * hexDigitValue(SubSeq(c, 3, 3)) + 256 * hexDigitValue(SubSeq(c, 4, 4))
         + 16 * hexDigitValue(SubSeq(c, 5, 5)) + hexDigitValue(SubSeq(c, 6, 6))
    ELSE IF c = "\t" THEN 9
    ELSE IF c = "\n" THEN 10
    ELSE IF c = "\f" THEN 12
    ELSE IF c = "\r" THEN 13
    ELSE 31 + CHOOSE i \in DOMAIN Printable : Printable[i] = c

\* the code unit of a number (String.fromCharCode)
fromCharCode(n) ==
    IF n >= 32 /\ n <= 126 THEN Printable[n - 31]
    ELSE IF n = 9 THEN "\t"
    ELSE IF n = 10 THEN "\n"
    ELSE IF n = 12 THEN "\f"
    ELSE IF n = 13 THEN "\r"
    ELSE "U+" \o HexDigits[(n \div 4096) + 1] \o HexDigits[((n \div 256) % 16) + 1]
              \o HexDigits[((n \div 16) % 16) + 1] \o HexDigits[(n % 16) + 1]

\* every code unit of s is printable ASCII or one of the four controls
IsPlain(s) == \A i \in DOMAIN s : Len(s[i]) = 1

IsHighSurrogate(n) == n >= 55296 /\ n <= 56319
IsLowSurrogate(n) == n >= 56320 /\ n <= 57343

\* the code points of a string; a surrogate that has no partner stands for itself
RECURSIVE toCodePoints(_)
toCodePoints(s) ==
    IF s = << >> THEN << >>
    ELSE LET hi == charCode(s[1])
         IN  IF IsHighSurrogate(hi) /\ Len(s) >= 2 /\ IsLowSurrogate(charCode(s[2]))
             THEN << 65536 + (hi - 55296) * 1024 + (charCode(s[2]) - 56320) >>
                  \o toCodePoints(SubSeq(s, 3, Len(s)))
             ELSE << hi >> \o toCodePoints(Tail(s))

RECURSIVE fromCodePoints(_)
fromCodePoints(cps) ==
    IF cps = << >> THEN << >>
    ELSE IF Head(cps) >= 65536
         THEN << fromCharCode(55296 + ((Head(cps) - 65536) \div 1024)),
                 fromCharCode(56320 + ((Head(cps) - 65536) % 1024)) >>
              \o fromCodePoints(Tail(cps))
         ELSE << fromCharCode(Head(cps)) >> \o fromCodePoints(Tail(cps))

\* The simple lower-case mappings of the code points above U+007F (Unicode
\* Character Database, version 17.0: the one of 15.0 and the case pairs
\* added in 16.0 and 17.0): << first, last, step, delta >> maps every
\* step-th code point from first to last to itself plus delta.
LowerCaseRuns == <<
    <<192, 214, 1, 32>>, <<216, 222, 1, 32>>, <<256, 302, 2, 1>>, <<306, 310,
    2, 1>>, <<313, 327, 2, 1>>, <<330, 374, 2, 1>>, <<376, 376, 1, -121>>,
    <<377, 381, 2, 1>>, <<385, 385, 1, 210>>, <<386, 388, 2, 1>>, <<390, 390,
    1, 206>>, <<391, 391, 1, 1>>, <<393, 394, 1, 205>>, <<395, 395, 1, 1>>,
    <<398, 398, 1, 79>>, <<399, 399, 1, 202>>, <<400, 400, 1, 203>>, <<401,
    401, 1, 1>>, <<403, 403, 1, 205>>, <<404, 404, 1, 207>>, <<406, 406, 1,
    211>>, <<407, 407, 1, 209>>, <<408, 408, 1, 1>>, <<412, 412, 1, 211>>,
    <<413, 413, 1, 213>>, <<415, 415, 1, 214>>, <<416, 420, 2, 1>>, <<422,
    422, 1, 218>>, <<423, 423, 1, 1>>, <<425, 425, 1, 218>>, <<428, 428, 1,
    1>>, <<430, 430, 1, 218>>, <<431, 431, 1, 1>>, <<433, 434, 1, 217>>,
    <<435, 437, 2, 1>>, <<439, 439, 1, 219>>, <<440, 440, 1, 1>>, <<444, 444,
    1, 1>>, <<452, 452, 1, 2>>, <<453, 453, 1, 1>>, <<455, 455, 1, 2>>, <<456,
    456, 1, 1>>, <<458, 458, 1, 2>>, <<459, 475, 2, 1>>, <<478, 494, 2, 1>>,
    <<497, 497, 1, 2>>, <<498, 500, 2, 1>>, <<502, 502, 1, -97>>, <<503, 503,
    1, -56>>, <<504, 542, 2, 1>>, <<544, 544, 1, -130>>, <<546, 562, 2, 1>>,
    <<570, 570, 1, 10795>>, <<571, 571, 1, 1>>, <<573, 573, 1, -163>>, <<574,
    574, 1, 10792>>, <<577, 577, 1, 1>>, <<579, 579, 1, -195>>, <<580, 580, 1,
    69>>, <<581, 581, 1, 71>>, <<582, 590, 2, 1>>, <<880, 882, 2, 1>>, <<886,
    886, 1, 1>>, <<895, 895, 1, 116>>, <<902, 902, 1, 38>>, <<904, 906, 1,
    37>>, <<908, 908, 1, 64>>, <<910, 911, 1, 63>>, <<913, 929, 1, 32>>,
    <<932, 939, 1, 32>>, <<975, 975, 1, 8>>, <<984, 1006, 2, 1>>, <<1012,
    1012, 1, -60>>, <<1015, 1015, 1, 1>>, <<1017, 1017, 1, -7>>, <<1018, 1018,
    1, 1>>, <<1021, 1023, 1, -130>>, <<1024, 1039, 1, 80>>, <<1040, 1071, 1,
    32>>, <<1120, 1152, 2, 1>>, <<1162, 1214, 2, 1>>, <<1216, 1216, 1, 15>>,
    <<1217, 1229, 2, 1>>, <<1232, 1326, 2, 1>>, <<1329, 1366, 1, 48>>, <<4256,
    4293, 1, 7264>>, <<4295, 4295, 1, 7264>>, <<4301, 4301, 1, 7264>>, <<5024,
    5103, 1, 38864>>, <<5104, 5109, 1, 8>>, <<7305, 7305, 1, 1>>, <<7312,
    7354, 1, -3008>>, <<7357, 7359, 1, -3008>>, <<7680, 7828, 2, 1>>, <<7838,
    7838, 1, -7615>>, <<7840, 7934, 2, 1>>, <<7944, 7951, 1, -8>>, <<7960,
    7965, 1, -8>>, <<7976, 7983, 1, -8>>, <<7992, 7999, 1, -8>>, <<8008, 8013,
    1, -8>>, <<8025, 8031, 2, -8>>, <<8040, 8047, 1, -8>>, <<8072, 8079, 1,
    -8>>, <<8088, 8095, 1, -8>>, <<8104, 8111, 1, -8>>, <<8120, 8121, 1, -8>>,
    <<8122, 8123, 1, -74>>, <<8124, 8124, 1, -9>>, <<8136, 8139, 1, -86>>,
    <<8140, 8140, 1, -9>>, <<8152, 8153, 1, -8>>, <<8154, 8155, 1, -100>>,
    <<8168, 8169, 1, -8>>, <<8170, 8171, 1, -112>>, <<8172, 8172, 1, -7>>,
    <<8184, 8185, 1, -128>>, <<8186, 8187, 1, -126>>, <<8188, 8188, 1, -9>>,
    <<8486, 8486, 1, -7517>>, <<8490, 8490, 1, -8383>>, <<8491, 8491, 1,
    -8262>>, <<8498, 8498, 1, 28>>, <<8544, 8559, 1, 16>>, <<8579, 8579, 1,
    1>>, <<9398, 9423, 1, 26>>, <<11264, 11311, 1, 48>>, <<11360, 11360, 1,
    1>>, <<11362, 11362, 1, -10743>>, <<11363, 11363, 1, -3814>>, <<11364,
    11364, 1, -10727>>, <<11367, 11371, 2, 1>>, <<11373, 11373, 1, -10780>>,
    <<11374, 11374, 1, -10749>>, <<11375, 11375, 1, -10783>>, <<11376, 11376,
    1, -10782>>, <<11378, 11378, 1, 1>>, <<11381, 11381, 1, 1>>, <<11390,
    11391, 1, -10815>>, <<11392, 11490, 2, 1>>, <<11499, 11501, 2, 1>>,
    <<11506, 11506, 1, 1>>, <<42560, 42604, 2, 1>>, <<42624, 42650, 2, 1>>,
    <<42786, 42798, 2, 1>>, <<42802, 42862, 2, 1>>, <<42873, 42875, 2, 1>>,
    <<42877, 42877, 1, -35332>>, <<42878, 42886, 2, 1>>, <<42891, 42891, 1,
    1>>, <<42893, 42893, 1, -42280>>, <<42896, 42898, 2, 1>>, <<42902, 42920,
    2, 1>>, <<42922, 42922, 1, -42308>>, <<42923, 42923, 1, -42319>>, <<42924,
    42924, 1, -42315>>, <<42925, 42925, 1, -42305>>, <<42926, 42926, 1,
    -42308>>, <<42928, 42928, 1, -42258>>, <<42929, 42929, 1, -42282>>,
    <<42930, 42930, 1, -42261>>, <<42931, 42931, 1, 928>>, <<42932, 42946, 2,
    1>>, <<42948, 42948, 1, -48>>, <<42949, 42949, 1, -42307>>, <<42950,
    42950, 1, -35384>>, <<42951, 42953, 2, 1>>, <<42955, 42955, 1, -42343>>,
    <<42956, 42970, 2, 1>>, <<42972, 42972, 1, -42561>>, <<42997, 42997, 1,
    1>>, <<65313, 65338, 1, 32>>, <<66560, 66599, 1, 40>>, <<66736, 66771, 1,
    40>>, <<66928, 66938, 1, 39>>, <<66940, 66954, 1, 39>>, <<66956, 66962, 1,
    39>>, <<66964, 66965, 1, 39>>, <<68736, 68786, 1, 64>>, <<68944, 68965, 1,
    32>>, <<71840, 71871, 1, 32>>, <<93760, 93791, 1, 32>>, <<93856, 93880, 1,
    27>>, <<125184, 125217, 1, 34>>
>>

\* the code points with the property Cased that are not Case_Ignorable
CasedRanges == <<
    <<65, 90>>, <<97, 122>>, <<170, 170>>, <<181, 181>>, <<186, 186>>, <<192,
    214>>, <<216, 246>>, <<248, 442>>, <<444, 447>>, <<452, 659>>, <<662,
    687>>, <<880, 883>>, <<886, 887>>, <<891, 893>>, <<895, 895>>, <<902,
    902>>, <<904, 906>>, <<908, 908>>, <<910, 929>>, <<931, 1013>>, <<1015,
    1153>>, <<1162, 1327>>, <<1329, 1366>>, <<1376, 1416>>, <<4256, 4293>>,
    <<4295, 4295>>, <<4301, 4301>>, <<4304, 4346>>, <<4349, 4351>>, <<5024,
    5109>>, <<5112, 5117>>, <<7296, 7306>>, <<7312, 7354>>, <<7357, 7359>>,
    <<7424, 7467>>, <<7531, 7543>>, <<7545, 7578>>, <<7680, 7957>>, <<7960,
    7965>>, <<7968, 8005>>, <<8008, 8013>>, <<8016, 8023>>, <<8025, 8025>>,
    <<8027, 8027>>, <<8029, 8029>>, <<8031, 8061>>, <<8064, 8116>>, <<8118,
    8124>>, <<8126, 8126>>, <<8130, 8132>>, <<8134, 8140>>, <<8144, 8147>>,
    <<8150, 8155>>, <<8160, 8172>>, <<8178, 8180>>, <<8182, 8188>>, <<8450,
    8450>>, <<8455, 8455>>, <<8458, 8467>>, <<8469, 8469>>, <<8473, 8477>>,
    <<8484, 8484>>, <<8486, 8486>>, <<8488, 8488>>, <<8490, 8493>>, <<8495,
    8500>>, <<8505, 8505>>, <<8508, 8511>>, <<8517, 8521>>, <<8526, 8526>>,
    <<8544, 8575>>, <<8579, 8580>>, <<9398, 9449>>, <<11264, 11387>>, <<11390,
    11492>>, <<11499, 11502>>, <<11506, 11507>>, <<11520, 11557>>, <<11559,
    11559>>, <<11565, 11565>>, <<42560, 42605>>, <<42624, 42651>>, <<42786,
    42863>>, <<42865, 42887>>, <<42891, 42894>>, <<42896, 42972>>, <<42997,
    42998>>, <<43002, 43002>>, <<43824, 43866>>, <<43872, 43880>>, <<43888,
    43967>>, <<64256, 64262>>, <<64275, 64279>>, <<65313, 65338>>, <<65345,
    65370>>, <<66560, 66639>>, <<66736, 66771>>, <<66776, 66811>>, <<66928,
    66938>>, <<66940, 66954>>, <<66956, 66962>>, <<66964, 66965>>, <<66967,
    66977>>, <<66979, 66993>>, <<66995, 67001>>, <<67003, 67004>>, <<68736,
    68786>>, <<68800, 68850>>, <<68944, 68965>>, <<68976, 68997>>, <<71840,
    71903>>, <<93760, 93823>>, <<93856, 93880>>, <<93883, 93907>>, <<119808,
    119892>>, <<119894, 119964>>, <<119966, 119967>>, <<119970, 119970>>,
    <<119973, 119974>>, <<119977, 119980>>, <<119982, 119993>>, <<119995,
    119995>>, <<119997, 120003>>, <<120005, 120069>>, <<120071, 120074>>,
    <<120077, 120084>>, <<120086, 120092>>, <<120094, 120121>>, <<120123,
    120126>>, <<120128, 120132>>, <<120134, 120134>>, <<120138, 120144>>,
    <<120146, 120485>>, <<120488, 120512>>, <<120514, 120538>>, <<120540,
    120570>>, <<120572, 120596>>, <<120598, 120628>>, <<120630, 120654>>,
    <<120656, 120686>>, <<120688, 120712>>, <<120714, 120744>>, <<120746,
    120770>>, <<120772, 120779>>, <<122624, 122633>>, <<122635, 122654>>,
    <<122661, 122666>>, <<125184, 125251>>, <<127280, 127305>>, <<127312,
    127337>>, <<127344, 127369>>
>>

\* the code points with the property Case_Ignorable
CaseIgnorableRanges == <<
    <<39, 39>>, <<46, 46>>, <<58, 58>>, <<94, 94>>, <<96, 96>>, <<168, 168>>,
    <<173, 173>>, <<175, 175>>, <<180, 180>>, <<183, 184>>, <<688, 879>>,
    <<884, 885>>, <<890, 890>>, <<900, 901>>, <<903, 903>>, <<1155, 1161>>,
    <<1369, 1369>>, <<1375, 1375>>, <<1425, 1469>>, <<1471, 1471>>, <<1473,
    1474>>, <<1476, 1477>>, <<1479, 1479>>, <<1524, 1524>>, <<1536, 1541>>,
    <<1552, 1562>>, <<1564, 1564>>, <<1600, 1600>>, <<1611, 1631>>, <<1648,
    1648>>, <<1750, 1757>>, <<1759, 1768>>, <<1770, 1773>>, <<1807, 1807>>,
    <<1809, 1809>>, <<1840, 1866>>, <<1958, 1968>>, <<2027, 2037>>, <<2042,
    2042>>, <<2045, 2045>>, <<2070, 2093>>, <<2137, 2139>>, <<2184, 2184>>,
    <<2192, 2193>>, <<2199, 2207>>, <<2249, 2306>>, <<2362, 2362>>, <<2364,
    2364>>, <<2369, 2376>>, <<2381, 2381>>, <<2385, 2391>>, <<2402, 2403>>,
    <<2417, 2417>>, <<2433, 2433>>, <<2492, 2492>>, <<2497, 2500>>, <<2509,
    2509>>, <<2530, 2531>>, <<2558, 2558>>, <<2561, 2562>>, <<2620, 2620>>,
    <<2625, 2626>>, <<2631, 2632>>, <<2635, 2637>>, <<2641, 2641>>, <<2672,
    2673>>, <<2677, 2677>>, <<2689, 2690>>, <<2748, 2748>>, <<2753, 2757>>,
    <<2759, 2760>>, <<2765, 2765>>, <<2786, 2787>>, <<2810, 2815>>, <<2817,
    2817>>, <<2876, 2876>>, <<2879, 2879>>, <<2881, 2884>>, <<2893, 2893>>,
    <<2901, 2902>>, <<2914, 2915>>, <<2946, 2946>>, <<3008, 3008>>, <<3021,
    3021>>, <<3072, 3072>>, <<3076, 3076>>, <<3132, 3132>>, <<3134, 3136>>,
    <<3142, 3144>>, <<3146, 3149>>, <<3157, 3158>>, <<3170, 3171>>, <<3201,
    3201>>, <<3260, 3260>>, <<3263, 3263>>, <<3270, 3270>>, <<3276, 3277>>,
    <<3298, 3299>>, <<3328, 3329>>, <<3387, 3388>>, <<3393, 3396>>, <<3405,
    3405>>, <<3426, 3427>>, <<3457, 3457>>, <<3530, 3530>>, <<3538, 3540>>,
    <<3542, 3542>>, <<3633, 3633>>, <<3636, 3642>>, <<3654, 3662>>, <<3761,
    3761>>, <<3764, 3772>>, <<3782, 3782>>, <<3784, 3790>>, <<3864, 3865>>,
    <<3893, 3893>>, <<3895, 3895>>, <<3897, 3897>>, <<3953, 3966>>, <<3968,
    3972>>, <<3974, 3975>>, <<3981, 3991>>, <<3993, 4028>>, <<4038, 4038>>,
    <<4141, 4144>>, <<4146, 4151>>, <<4153, 4154>>, <<4157, 4158>>, <<4184,
    4185>>, <<4190, 4192>>, <<4209, 4212>>, <<4226, 4226>>, <<4229, 4230>>,
    <<4237, 4237>>, <<4253, 4253>>, <<4348, 4348>>, <<4957, 4959>>, <<5906,
    5908>>, <<5938, 5939>>, <<5970, 5971>>, <<6002, 6003>>, <<6068, 6069>>,
    <<6071, 6077>>, <<6086, 6086>>, <<6089, 6099>>, <<6103, 6103>>, <<6109,
    6109>>, <<6155, 6159>>, <<6211, 6211>>, <<6277, 6278>>, <<6313, 6313>>,
    <<6432, 6434>>, <<6439, 6440>>, <<6450, 6450>>, <<6457, 6459>>, <<6679,
    6680>>, <<6683, 6683>>, <<6742, 6742>>, <<6744, 6750>>, <<6752, 6752>>,
    <<6754, 6754>>, <<6757, 6764>>, <<6771, 6780>>, <<6783, 6783>>, <<6823,
    6823>>, <<6832, 6877>>, <<6880, 6891>>, <<6912, 6915>>, <<6964, 6964>>,
    <<6966, 6970>>, <<6972, 6972>>, <<6978, 6978>>, <<7019, 7027>>, <<7040,
    7041>>, <<7074, 7077>>, <<7080, 7081>>, <<7083, 7085>>, <<7142, 7142>>,
    <<7144, 7145>>, <<7149, 7149>>, <<7151, 7153>>, <<7212, 7219>>, <<7222,
    7223>>, <<7288, 7293>>, <<7376, 7378>>, <<7380, 7392>>, <<7394, 7400>>,
    <<7405, 7405>>, <<7412, 7412>>, <<7416, 7417>>, <<7468, 7530>>, <<7544,
    7544>>, <<7579, 7679>>, <<8125, 8125>>, <<8127, 8129>>, <<8141, 8143>>,
    <<8157, 8159>>, <<8173, 8175>>, <<8189, 8190>>, <<8203, 8207>>, <<8216,
    8217>>, <<8228, 8228>>, <<8231, 8231>>, <<8234, 8238>>, <<8288, 8292>>,
    <<8294, 8303>>, <<8305, 8305>>, <<8319, 8319>>, <<8336, 8348>>, <<8400,
    8432>>, <<11388, 11389>>, <<11503, 11505>>, <<11631, 11631>>, <<11647,
    11647>>, <<11744, 11775>>, <<11823, 11823>>, <<12293, 12293>>, <<12330,
    12333>>, <<12337, 12341>>, <<12347, 12347>>, <<12441, 12446>>, <<12540,
    12542>>, <<40981, 40981>>, <<42232, 42237>>, <<42508, 42508>>, <<42607,
    42610>>, <<42612, 42621>>, <<42623, 42623>>, <<42652, 42655>>, <<42736,
    42737>>, <<42752, 42785>>, <<42864, 42864>>, <<42888, 42890>>, <<42993,
    42996>>, <<43000, 43001>>, <<43010, 43010>>, <<43014, 43014>>, <<43019,
    43019>>, <<43045, 43046>>, <<43052, 43052>>, <<43204, 43205>>, <<43232,
    43249>>, <<43263, 43263>>, <<43302, 43309>>, <<43335, 43345>>, <<43392,
    43394>>, <<43443, 43443>>, <<43446, 43449>>, <<43452, 43453>>, <<43471,
    43471>>, <<43493, 43494>>, <<43561, 43566>>, <<43569, 43570>>, <<43573,
    43574>>, <<43587, 43587>>, <<43596, 43596>>, <<43632, 43632>>, <<43644,
    43644>>, <<43696, 43696>>, <<43698, 43700>>, <<43703, 43704>>, <<43710,
    43711>>, <<43713, 43713>>, <<43741, 43741>>, <<43756, 43757>>, <<43763,
    43764>>, <<43766, 43766>>, <<43867, 43871>>, <<43881, 43883>>, <<44005,
    44005>>, <<44008, 44008>>, <<44013, 44013>>, <<64286, 64286>>, <<64434,
    64450>>, <<65024, 65039>>, <<65043, 65043>>, <<65056, 65071>>, <<65106,
    65106>>, <<65109, 65109>>, <<65279, 65279>>, <<65287, 65287>>, <<65294,
    65294>>, <<65306, 65306>>, <<65342, 65342>>, <<65344, 65344>>, <<65392,
    65392>>, <<65438, 65439>>, <<65507, 65507>>, <<65529, 65531>>, <<66045,
    66045>>, <<66272, 66272>>, <<66422, 66426>>, <<67456, 67461>>, <<67463,
    67504>>, <<67506, 67514>>, <<68097, 68099>>, <<68101, 68102>>, <<68108,
    68111>>, <<68152, 68154>>, <<68159, 68159>>, <<68325, 68326>>, <<68900,
    68903>>, <<68942, 68942>>, <<68969, 68973>>, <<68975, 68975>>, <<69291,
    69292>>, <<69317, 69317>>, <<69370, 69375>>, <<69446, 69456>>, <<69506,
    69509>>, <<69633, 69633>>, <<69688, 69702>>, <<69744, 69744>>, <<69747,
    69748>>, <<69759, 69761>>, <<69811, 69814>>, <<69817, 69818>>, <<69821,
    69821>>, <<69826, 69826>>, <<69837, 69837>>, <<69888, 69890>>, <<69927,
    69931>>, <<69933, 69940>>, <<70003, 70003>>, <<70016, 70017>>, <<70070,
    70078>>, <<70089, 70092>>, <<70095, 70095>>, <<70191, 70193>>, <<70196,
    70196>>, <<70198, 70199>>, <<70206, 70206>>, <<70209, 70209>>, <<70367,
    70367>>, <<70371, 70378>>, <<70400, 70401>>, <<70459, 70460>>, <<70464,
    70464>>, <<70502, 70508>>, <<70512, 70516>>, <<70587, 70592>>, <<70606,
    70606>>, <<70608, 70608>>, <<70610, 70610>>, <<70625, 70626>>, <<70712,
    70719>>, <<70722, 70724>>, <<70726, 70726>>, <<70750, 70750>>, <<70835,
    70840>>, <<70842, 70842>>, <<70847, 70848>>, <<70850, 70851>>, <<71090,
    71093>>, <<71100, 71101>>, <<71103, 71104>>, <<71132, 71133>>, <<71219,
    71226>>, <<71229, 71229>>, <<71231, 71232>>, <<71339, 71339>>, <<71341,
    71341>>, <<71344, 71349>>, <<71351, 71351>>, <<71453, 71453>>, <<71455, 71455>>, <<71458,
    71461>>, <<71463, 71467>>, <<71727, 71735>>, <<71737, 71738>>, <<71995,
    71996>>, <<71998, 71998>>, <<72003, 72003>>, <<72148, 72151>>, <<72154,
    72155>>, <<72160, 72160>>, <<72193, 72202>>, <<72243, 72248>>, <<72251,
    72254>>, <<72263, 72263>>, <<72273, 72278>>, <<72281, 72283>>, <<72330,
    72342>>, <<72344, 72345>>, <<72544, 72544>>, <<72546, 72548>>, <<72550,
    72550>>, <<72752, 72758>>, <<72760, 72765>>, <<72767, 72767>>, <<72850,
    72871>>, <<72874, 72880>>, <<72882, 72883>>, <<72885, 72886>>, <<73009,
    73014>>, <<73018, 73018>>, <<73020, 73021>>, <<73023, 73029>>, <<73031,
    73031>>, <<73104, 73105>>, <<73109, 73109>>, <<73111, 73111>>, <<73177,
    73177>>, <<73459, 73460>>, <<73472, 73473>>, <<73526, 73530>>, <<73536,
    73536>>, <<73538, 73538>>, <<73562, 73562>>, <<78896, 78912>>, <<78919,
    78933>>, <<90398, 90409>>, <<90413, 90415>>, <<92912, 92916>>, <<92976,
    92982>>, <<92992, 92995>>, <<93504, 93506>>, <<93547, 93548>>, <<94031,
    94031>>, <<94095, 94111>>, <<94176, 94177>>, <<94179, 94180>>, <<94194,
    94195>>, <<110576, 110579>>, <<110581, 110587>>, <<110589, 110590>>,
    <<113821, 113822>>, <<113824, 113827>>, <<118528, 118573>>, <<118576,
    118598>>, <<119143, 119145>>, <<119155, 119170>>, <<119173, 119179>>,
    <<119210, 119213>>, <<119362, 119364>>, <<121344, 121398>>, <<121403,
    121452>>, <<121461, 121461>>, <<121476, 121476>>, <<121499, 121503>>,
    <<121505, 121519>>, <<122880, 122886>>, <<122888, 122904>>, <<122907,
    122913>>, <<122915, 122916>>, <<122918, 122922>>, <<122928, 122989>>,
    <<123023, 123023>>, <<123184, 123197>>, <<123566, 123566>>, <<123628,
    123631>>, <<124139, 124143>>, <<124398, 124399>>, <<124643, 124643>>,
    <<124646, 124646>>, <<124654, 124655>>, <<124661, 124661>>, <<124671,
    124671>>, <<125136, 125142>>, <<125252, 125259>>, <<127995, 127999>>,
    <<917505, 917505>>, <<917536, 917631>>, <<917760, 917999>>
>>

InRanges(cp, ranges) == \E i \in DOMAIN ranges : ranges[i][1] <= cp /\ cp <= ranges[i][2]

IsCaseIgnorable(cp) == InRanges(cp, CaseIgnorableRanges)
IsCased(cp) == ~IsCaseIgnorable(cp) /\ InRanges(cp, CasedRanges)

\* the first code point at or after i (dir = 1), at or before i (dir = -1),
\* that is not Case_Ignorable; 0 when there is none
RECURSIVE skipCaseIgnorable(_, _, _)
skipCaseIgnorable(cps, i, dir) ==
    IF i < 1 \/ i > Len(cps) THEN 0
    ELSE IF IsCaseIgnorable(cps[i]) THEN skipCaseIgnorable(cps, i + dir, dir)
    ELSE i

\* SpecialCasing Final_Sigma: a cased letter comes before, none comes after
IsFinalSigma(cps, i) ==
    LET before == skipCaseIgnorable(cps, i - 1, -1)
        after == skipCaseIgnorable(cps, i + 1, 1)
    IN  /\ before # 0
        /\ IsCased(cps[before])
        /\ (after = 0 \/ ~IsCased(cps[after]))

\* the lower case of the code point at i
lowerCodePoint(cps, i) ==
    LET cp == cps[i]
    IN  IF cp >= 65 /\ cp <= 90 THEN << cp + 32 >>
        ELSE IF cp < 128 THEN << cp >>
        ELSE IF cp = 304 THEN << 105, 775 >>
        ELSE IF cp = 931 THEN (IF IsFinalSigma(cps, i) THEN << 962 >> ELSE << 963 >>)
        ELSE IF \E r \in DOMAIN LowerCaseRuns :
                    /\ LowerCaseRuns[r][1] <= cp
                    /\ cp <= LowerCaseRuns[r][2]
                    /\ (cp - LowerCaseRuns[r][1]) % LowerCaseRuns[r][3] = 0
             THEN LET r == CHOOSE r \in DOMAIN LowerCaseRuns :
                               /\ LowerCaseRuns[r][1] <= cp
                               /\ cp <= LowerCaseRuns[r][2]
                               /\ (cp - LowerCaseRuns[r][1]) % LowerCaseRuns[r][3] = 0
                  IN  << cp + LowerCaseRuns[r][4] >>
             ELSE << cp >>

RECURSIVE lowerCodePoints(_, _)
lowerCodePoints(cps, i) ==
    IF i > Len(cps) THEN << >>
    ELSE lowerCodePoint(cps, i) \o lowerCodePoints(cps, i + 1)

\* the i flag of a regular expression without the u flag, for patterns made
\* of ASCII letters, digits, "_" and ".": a subject code unit matches a
\* pattern letter when it is that letter or its ASCII capital (Canonicalize
\* keeps a code unit above U+007F whose upper case is ASCII, so U+212A,
\* U+017F and U+0131 match no ASCII letter)
ignoreCaseChar(c) ==
    IF c \in UpperChars THEN Lower[CHOOSE i \in 1..26 : Upper[i] = c] ELSE c

ignoreCase(s) == [i \in 1..Len(s) |-> ignoreCaseChar(s[i])]

\* String.prototype.toLowerCase
toLowerCase(s) ==
    IF IsPlain(s) THEN ignoreCase(s)
    ELSE fromCodePoints(lowerCodePoints(toCodePoints(s), 1))

\* toLowerCase of the one-unit string c
toLowerCaseChar(c) == toLowerCase(<< c >>)

toUpperCaseChar(c) ==
    IF c \in LowerChars THEN Upper[CHOOSE i \in 1..26 : Lower[i] = c] ELSE c

\* the ASCII capitals of s, which writes the test ids in upper case
toUpperCase(s) == [i \in 1..Len(s) |-> toUpperCaseChar(s[i])]

\* the character class [a-z0-9]
LowerAlnum == Range(Lower) \cup Digits
IsLowerAlnum(c) == c \in LowerAlnum

\* .replace(/[^a-z0-9]+/g, "_"): every maximal run of other characters becomes one "_"
RECURSIVE replaceNonAlnumRuns(_, _)
replaceNonAlnumRuns(s, inRun) ==
    IF s = << >> THEN << >>
    ELSE IF IsLowerAlnum(Head(s))
         THEN << Head(s) >> \o replaceNonAlnumRuns(Tail(s), FALSE)
         ELSE IF inRun
              THEN replaceNonAlnumRuns(Tail(s), TRUE)
              ELSE << "_" >> \o replaceNonAlnumRuns(Tail(s), TRUE)

\* .replace(/^_+|_+$/g, ""): the leading and the trailing run of "_" are removed
RECURSIVE stripLeadingUnderscores(_)
stripLeadingUnderscores(s) ==
    IF s # << >> /\ Head(s) = "_" THEN stripLeadingUnderscores(Tail(s)) ELSE s

RECURSIVE stripTrailingUnderscores(_)
stripTrailingUnderscores(s) ==
    IF s # << >> /\ s[Len(s)] = "_"
    THEN stripTrailingUnderscores(SubSeq(s, 1, Len(s) - 1))
    ELSE s

trimUnderscores(s) == stripTrailingUnderscores(stripLeadingUnderscores(s))

\* a plausible slip: the two replace() calls in the other order
normalizeSoundId_trimFirst(soundId) ==
    replaceNonAlnumRuns(trimUnderscores(toLowerCase(soundId)), FALSE)

normalizeSoundId(soundId) ==
    trimUnderscores(replaceNonAlnumRuns(toLowerCase(soundId), FALSE))

Contains(s, sub) ==
    \E i \in 0..(Len(s) - Len(sub)) :
        s[i + 1] = sub[1] /\ SubSeq(s, i + 1, i + Len(sub)) = sub

\* The nine regular expressions; each is a fixed prefix and alternatives, so
\* it matches exactly the strings that contain one of the listed literals.
VOICE_SFX_PATTERNS == <<
    { <<"u","s","e","r","_","j","o","i","n">>,
      <<"u","s","e","r","_","l","e","a","v","e">>,
      <<"u","s","e","r","_","m","o","v","e">> },
    { <<"v","o","i","c","e","_","j","o","i","n">>,
      <<"v","o","i","c","e","_","l","e","a","v","e">>,
      <<"v","o","i","c","e","_","m","o","v","e">> },
    { <<"s","t","r","e","a","m","_","s","t","a","r","t">>,
      <<"s","t","r","e","a","m","_","s","t","o","p">>,
      <<"s","t","r","e","a","m","_","e","n","d">>,
      <<"s","t","r","e","a","m","_","s","t","a","r","t","e","d">>,
      <<"s","t","r","e","a","m","_","s","t","o","p","p","e","d">> },
    { <<"g","o","_","l","i","v","e">> },
    { <<"s","t","a","g","e","_","s","t","a","r","t">>,
      <<"s","t","a","g","e","_","e","n","d">>,
      <<"s","t","a","g","e","_","j","o","i","n">>,
      <<"s","t","a","g","e","_","l","e","a","v","e">> },
    { <<"v","i","e","w","e","r","_","j","o","i","n">>,
      <<"v","i","e","w","e","r","_","l","e","a","v","e">> },
    { <<"v","o","i","c","e","_","d","i","s","c","o","n","n","e","c","t","e","d">> },
    { <<"i","n","v","i","t","e","d","_","t","o","_","s","p","e","a","k">> },
    { <<"a","c","t","i","v","i","t","y","_","s","t","a","r","t">>,
      <<"a","c","t","i","v","i","t","y","_","e","n","d">>,
      <<"a","c","t","i","v","i","t","y","_","u","s","e","r","_","j","o","i","n">>,
      <<"a","c","t","i","v","i","t","y","_","u","s","e","r","_","l","e","a","v","e">> }
>>

\* pattern.test(s): the i flag compares the case-folded subject with the
\* lower-case literals; folded is ignoreCase(s)
patternTest(p, folded) == \E alt \in VOICE_SFX_PATTERNS[p] : Contains(folded, alt)

\* a plausible slip: only the raw id is tested
isVoiceChannelSfxSoundId_rawOnly(soundId) ==
    LET raw == ignoreCase(soundId)
    IN  \E p \in 1..Len(VOICE_SFX_PATTERNS) : patternTest(p, raw)

isVoiceChannelSfxSoundId(soundId) ==
    LET normalized == ignoreCase(normalizeSoundId(soundId))
        raw == ignoreCase(soundId)
    IN  \E p \in 1..Len(VOICE_SFX_PATTERNS) :
            patternTest(p, raw) \/ patternTest(p, normalized)

----------------------------------------------------------------------------
(* JavaScript values of the untyped call arguments *)

Undefined == [t |-> "undefined"]
JSNull == [t |-> "null"]
JSString(s) == [t |-> "string", v |-> s]
JSNumber(n) == [t |-> "number", v |-> n]
JSObject(f) == [t |-> "object", f |-> f]

\* x != null && typeof x === "object"
IsObject(x) == x.t = "object"
IsString(x) == x.t = "string"
\* x == null
IsNullish(x) == x.t \in { "undefined", "null" }
\* the truthiness of a value that is a string or nullish
IsTruthyString(x) == IsString(x) /\ x.v # << >>

\* obj[key]; a[key] of a primitive that has no such property is undefined
Prop(x, key) == IF IsObject(x) /\ key \in DOMAIN x.f THEN x.f[key] ELSE Undefined

\* a ?? b
Coalesce(a, b) == IF IsNullish(a) THEN b ELSE a

----------------------------------------------------------------------------
(* Host queries *)

NoChannel == << >>
Absent == -1

SUPPRESS_WINDOW_MS == 600

SOUND_FUNCTIONS == << "playSound", "playSoundPack", "playSoundAtVolume",
                      "playSoundWithVolume", "playSoundWithVolumeAndPan" >>

\* SelectedChannelStore?.getVoiceChannelId?.()
getVoiceChannelId == vc

\* a plausible slip: the first try block's result is the only answer
isSelfDeafened_noFallback == mediaEngineOk /\ deaf

isSelfDeafened ==
    IF mediaEngineOk
    THEN deaf
    ELSE IF getVoiceChannelId = NoChannel THEN FALSE ELSE deaf

\* a plausible slip: the window gate does not look at the voice state
shouldSuppressAnySfxNow_windowOnly ==
    /\ isActive
    /\ now < suppressUntil

shouldSuppressAnySfxNow ==
    /\ isActive
    /\ now < suppressUntil
    /\ isSelfDeafened
    /\ getVoiceChannelId # NoChannel

----------------------------------------------------------------------------
(* Argument probing and the decision *)

getChannelId(options) ==
    IF ~IsObject(options) THEN Undefined
    ELSE LET candidate ==
                 Coalesce(Prop(options, "channelId"),
                   Coalesce(Prop(options, "voiceChannelId"),
                     Coalesce(Prop(options, "currentChannelId"),
                              Prop(options, "targetChannelId"))))
         IN  IF IsString(candidate) THEN candidate ELSE Undefined

RECURSIVE getStringProp(_, _)
getStringProp(obj, keys) ==
    IF ~IsObject(obj) \/ keys = << >> THEN Undefined
    ELSE IF IsString(Prop(obj, Head(keys))) THEN Prop(obj, Head(keys))
         ELSE getStringProp(obj, Tail(keys))

commonKeys == << "sound", "soundId", "soundName", "name", "id", "key", "event", "type" >>

getSoundId(soundArg, optionsArg) ==
    IF IsString(soundArg) THEN soundArg
    ELSE LET direct == Coalesce(getStringProp(soundArg, commonKeys),
                                getStringProp(optionsArg, commonKeys))
             nestedSound == Coalesce(Prop(soundArg, "sound"), Prop(optionsArg, "sound"))
             nested == getStringProp(nestedSound, commonKeys)
         IN  IF IsTruthyString(direct) THEN direct
             ELSE IF IsTruthyString(nested) THEN nested
             ELSE Undefined

\* a plausible slip: the deafened / in-channel guard is missing
shouldSuppress_noGuard(soundArg, optionsArg) ==
    LET voiceChannelId == getVoiceChannelId
        optionsChannelId == getChannelId(optionsArg)
        soundArgChannelId == getChannelId(soundArg)
        soundId == getSoundId(soundArg, optionsArg)
    IN  IF (IsTruthyString(optionsChannelId) /\ optionsChannelId.v = voiceChannelId)
           \/ (IsTruthyString(soundArgChannelId) /\ soundArgChannelId.v = voiceChannelId)
        THEN TRUE
        ELSE IF ~IsTruthyString(soundId) THEN FALSE
        ELSE isVoiceChannelSfxSoundId(soundId.v)

\* a plausible slip: an unclassifiable call is suppressed (fail-closed)
shouldSuppress_failClosed(soundArg, optionsArg) ==
    LET voiceChannelId == getVoiceChannelId
        optionsChannelId == getChannelId(optionsArg)
        soundArgChannelId == getChannelId(soundArg)
        soundId == getSoundId(soundArg, optionsArg)
    IN  IF ~isSelfDeafened THEN FALSE
        ELSE IF voiceChannelId = NoChannel THEN FALSE
        ELSE IF (IsTruthyString(optionsChannelId) /\ optionsChannelId.v = voiceChannelId)
                \/ (IsTruthyString(soundArgChannelId) /\ soundArgChannelId.v = voiceChannelId)
        THEN TRUE
        ELSE IF ~IsTruthyString(soundId) THEN TRUE
        ELSE isVoiceChannelSfxSoundId(soundId.v)

shouldSuppress(soundArg, optionsArg) ==
    LET voiceChannelId == getVoiceChannelId
        optionsChannelId == getChannelId(optionsArg)
        soundArgChannelId == getChannelId(soundArg)
        soundId == getSoundId(soundArg, optionsArg)
    IN  IF ~isSelfDeafened THEN FALSE
        ELSE IF voiceChannelId = NoChannel THEN FALSE
        ELSE IF (IsTruthyString(optionsChannelId) /\ optionsChannelId.v = voiceChannelId)
                \/ (IsTruthyString(soundArgChannelId) /\ soundArgChannelId.v = voiceChannelId)
        THEN TRUE
        ELSE IF ~IsTruthyString(soundId) THEN FALSE
        ELSE isVoiceChannelSfxSoundId(soundId.v)

----------------------------------------------------------------------------
(* Window controller and state tracker.  Both are written over the values  *)
(* they read and return the values they leave, because start() and the     *)
(* flux handlers run them inside one step.                                 *)

\* a call of triggerSuppressionWindow, as the operations record it
TriggerCall(reason, by) == [reason |-> reason, by |-> by]

\* a plausible slip: the window is extended whatever the voice state is
triggerSuppressionWindow_noGuard(su) == Max(su, now + SUPPRESS_WINDOW_MS)

\* a plausible slip: a trigger inside an open window adds to what is left of it
triggerSuppressionWindow_additive(su) ==
    IF ~isSelfDeafened THEN su
    ELSE IF getVoiceChannelId = NoChannel THEN su
    ELSE Max(su, now) + SUPPRESS_WINDOW_MS

\* the value of suppressUntil after triggerSuppressionWindow(reason), from su
triggerSuppressionWindow(su) ==
    IF ~isSelfDeafened THEN su
    ELSE IF getVoiceChannelId = NoChannel THEN su
    ELSE Max(su, now + SUPPRESS_WINDOW_MS)

\* the snapshot, suppressUntil and the trigger calls after
\* updateVoiceCountsAndMaybeSuppress(), from suppressUntil = su
\* (ran: the tracker ran; before: suppressUntil when it was entered, which
\* the caller fills in; dispatched: the payloads the host's own dispatch
\* received, which the dispatcher fills in)
Snapshot(ch, mc, sc, su, calls) ==
    [lastVoiceChannelId |-> ch, lastMemberCount |-> mc, lastStreamCount |-> sc,
     suppressUntil |-> su, calls |-> calls, ran |-> TRUE, before |-> su,
     dispatched |-> << >>]

\* a plausible slip: the two count branches are not exclusive
updateVoiceCountsAndMaybeSuppress_bothBranches(su) ==
    LET voiceChannelId == getVoiceChannelId IN
    IF voiceChannelId = NoChannel THEN Snapshot(NoChannel, 0, 0, su, << >>)
    ELSE IF members = Absent
    THEN Snapshot(lastVoiceChannelId, lastMemberCount, lastStreamCount, su, << >>)
    ELSE LET channelChanged == lastVoiceChannelId # voiceChannelId
             memberCountChanged == members # lastMemberCount
             streamCountChanged == streams # lastStreamCount
             calls == (IF memberCountChanged
                       THEN << TriggerCall("memberCountChanged", "tick") >> ELSE << >>)
                      \o (IF streamCountChanged
                          THEN << TriggerCall("streamCountChanged", "tick") >> ELSE << >>)
         IN  IF channelChanged THEN Snapshot(voiceChannelId, members, streams, su, << >>)
             ELSE Snapshot(voiceChannelId, members, streams,
                           IF calls # << >> THEN triggerSuppressionWindow(su) ELSE su,
                           calls)

\* a plausible slip: the channel-change early return is missing
updateVoiceCountsAndMaybeSuppress_noChannelCheck(su) ==
    LET voiceChannelId == getVoiceChannelId IN
    IF voiceChannelId = NoChannel THEN Snapshot(NoChannel, 0, 0, su, << >>)
    ELSE IF members = Absent
    THEN Snapshot(lastVoiceChannelId, lastMemberCount, lastStreamCount, su, << >>)
    ELSE LET memberCountChanged == members # lastMemberCount
             streamCountChanged == streams # lastStreamCount
         IN  IF memberCountChanged
             THEN Snapshot(voiceChannelId, members, streams, triggerSuppressionWindow(su),
                           << TriggerCall("memberCountChanged", "tick") >>)
             ELSE IF streamCountChanged
             THEN Snapshot(voiceChannelId, members, streams, triggerSuppressionWindow(su),
                           << TriggerCall("streamCountChanged", "tick") >>)
             ELSE Snapshot(voiceChannelId, members, streams, su, << >>)

\* a plausible slip: the channel-change return comes before the snapshot is stored
updateVoiceCountsAndMaybeSuppress_returnBeforeStore(su) ==
    LET voiceChannelId == getVoiceChannelId IN
    IF voiceChannelId = NoChannel THEN Snapshot(NoChannel, 0, 0, su, << >>)
    ELSE IF members = Absent
    THEN Snapshot(lastVoiceChannelId, lastMemberCount, lastStreamCount, su, << >>)
    ELSE LET channelChanged == lastVoiceChannelId # voiceChannelId
             memberCountChanged == members # lastMemberCount
             streamCountChanged == streams # lastStreamCount
         IN  IF channelChanged
             THEN Snapshot(lastVoiceChannelId, lastMemberCount, lastStreamCount, su, << >>)
             ELSE IF memberCountChanged
             THEN Snapshot(voiceChannelId, members, streams, triggerSuppressionWindow(su),
                           << TriggerCall("memberCountChanged", "tick") >>)
             ELSE IF streamCountChanged
             THEN Snapshot(voiceChannelId, members, streams, triggerSuppressionWindow(su),
                           << TriggerCall("streamCountChanged", "tick") >>)
             ELSE Snapshot(voiceChannelId, members, streams, su, << >>)

updateVoiceCountsAndMaybeSuppress(su) ==
    LET voiceChannelId == getVoiceChannelId IN
    IF voiceChannelId = NoChannel THEN Snapshot(NoChannel, 0, 0, su, << >>)
    ELSE IF members = Absent
    THEN Snapshot(lastVoiceChannelId, lastMemberCount, lastStreamCount, su, << >>)
    ELSE LET channelChanged == lastVoiceChannelId # voiceChannelId
             memberCountChanged == members # lastMemberCount
             streamCountChanged == streams # lastStreamCount
         IN  IF channelChanged THEN Snapshot(voiceChannelId, members, streams, su, << >>)
             ELSE IF memberCountChanged
             THEN Snapshot(voiceChannelId, members, streams, triggerSuppressionWindow(su),
                           << TriggerCall("memberCountChanged", "tick") >>)
             ELSE IF streamCountChanged
             THEN Snapshot(voiceChannelId, members, streams, triggerSuppressionWindow(su),
                           << TriggerCall("streamCountChanged", "tick") >>)
             ELSE Snapshot(voiceChannelId, members, streams, su, << >>)

----------------------------------------------------------------------------
(* The media element's sound id *)

\* the index of the first element of s that is in cs, 0 when there is none
RECURSIVE firstIndexOf(_, _, _)
firstIndexOf(s, cs, i) ==
    IF i > Len(s) THEN 0
    ELSE IF s[i] \in cs THEN i
    ELSE firstIndexOf(s, cs, i + 1)

\* s.split("/").pop()
RECURSIVE lastSegment(_)
lastSegment(s) ==
    LET i == firstIndexOf(s, { "/" }, 1)
    IN  IF i = 0 THEN s ELSE lastSegment(SubSeq(s, i + 1, Len(s)))

\* the code units String.prototype.trim removes: WhiteSpace and LineTerminator
WhiteSpaceCodes == { 9, 10, 11, 12, 13, 32, 160, 5760, 8232, 8233, 8239, 8287,
                     12288, 65279 } \cup (8192..8202)

IsWhiteSpace(c) ==
    IF Len(c) = 1 THEN c \in { " ", "\t", "\n", "\f", "\r" }
    ELSE charCode(c) \in WhiteSpaceCodes

RECURSIVE trimStart(_)
trimStart(s) == IF s # << >> /\ IsWhiteSpace(Head(s)) THEN trimStart(Tail(s)) ELSE s

RECURSIVE trimEnd(_)
trimEnd(s) ==
    IF s # << >> /\ IsWhiteSpace(s[Len(s)]) THEN trimEnd(SubSeq(s, 1, Len(s) - 1)) ELSE s

\* String.prototype.trim
trim(s) == trimEnd(trimStart(s))

----------------------------------------------------------------------------
(* new URL(src), without a base: the URL parser of the runtime (the URL     *)
(* Standard as Node 20 implements it), as far as it decides whether the     *)
(* text parses and what its pathname is.  The query and the fragment are    *)
(* cut off and the credentials are skipped.  A domain that needs IDNA       *)
(* processing, one with a code unit above U+007F or with an xn-- label, is  *)
(* accepted or rejected by the runtime's domain-to-ASCII; its answer is the *)
(* argument idnaAccepts, which the caller draws from BOOLEAN.               *)

SpecialSchemes == { <<"f","t","p">>, <<"f","i","l","e">>, <<"h","t","t","p">>,
                    <<"h","t","t","p","s">>, <<"w","s">>, <<"w","s","s">> }
FileScheme == <<"f","i","l","e">>
SoundFileExtensions == { << "m", "p", "3" >>, << "o", "g", "g" >>, << "w", "a", "v" >> }

IsAsciiAlpha(c) == c \in UpperChars \cup LowerChars
IsAsciiDigit(c) == c \in Digits

URLFailure == [ok |-> FALSE, pathname |-> << >>]
URLParsed(pathname) == [ok |-> TRUE, pathname |-> pathname]

IsC0ControlOrSpace(c) ==
    IF Len(c) = 1 THEN c \in { " ", "\t", "\n", "\f", "\r" } ELSE charCode(c) <= 32

IsNotTabOrNewline(c) ==
    IF Len(c) = 1 THEN c \notin { "\t", "\n", "\r" } ELSE charCode(c) \notin { 9, 10, 13 }

\* leading and trailing C0 controls and spaces are removed, then every tab and newline
RECURSIVE stripC0ControlOrSpace(_)
stripC0ControlOrSpace(s) ==
    IF s # << >> /\ IsC0ControlOrSpace(Head(s)) THEN stripC0ControlOrSpace(Tail(s))
    ELSE IF s # << >> /\ IsC0ControlOrSpace(s[Len(s)])
         THEN stripC0ControlOrSpace(SubSeq(s, 1, Len(s) - 1))
         ELSE s

urlInput(src) == SelectSeq(stripC0ControlOrSpace(src), IsNotTabOrNewline)

\* scheme start state and scheme state: the index of the ":" that ends the
\* scheme, 0 when the text has no scheme
RECURSIVE schemeEnd(_, _)
schemeEnd(s, i) ==
    IF i > Len(s) THEN 0
    ELSE IF i = 1 THEN (IF IsAsciiAlpha(s[1]) THEN schemeEnd(s, 2) ELSE 0)
    ELSE IF s[i] = ":" THEN i
    ELSE IF IsAsciiAlpha(s[i]) \/ IsAsciiDigit(s[i]) \/ s[i] \in { "+", "-", "." }
         THEN schemeEnd(s, i + 1)
         ELSE 0

\* the bytes of the UTF-8 encoding of a code point (a surrogate without a
\* partner is encoded as U+FFFD)
utf8Encode(codePoint) ==
    LET cp == IF codePoint >= 55296 /\ codePoint <= 57343 THEN 65533 ELSE codePoint
    IN  IF cp < 128 THEN << cp >>
        ELSE IF cp < 2048 THEN << 192 + (cp \div 64), 128 + (cp % 64) >>
        ELSE IF cp < 65536
             THEN << 224 + (cp \div 4096), 128 + ((cp \div 64) % 64), 128 + (cp % 64) >>
             ELSE << 240 + (cp \div 262144), 128 + ((cp \div 4096) % 64),
                     128 + ((cp \div 64) % 64), 128 + (cp % 64) >>

RECURSIVE percentEncodeBytes(_)
percentEncodeBytes(bytes) ==
    IF bytes = << >> THEN << >>
    ELSE << "%", HexDigits[(Head(bytes) \div 16) + 1], HexDigits[(Head(bytes) % 16) + 1] >>
         \o percentEncodeBytes(Tail(bytes))

\* the C0 control percent-encode set
InC0ControlSet(cp) == cp < 32 \/ cp > 126

\* the path percent-encode set: the C0 control set, the space, the double
\* quote, the grave accent and # < > ? { }
InPathSet(cp) == InC0ControlSet(cp) \/ cp \in { 32, 34, 35, 60, 62, 63, 96, 123, 125 }

RECURSIVE percentEncodeCodePoints(_, _)
percentEncodeCodePoints(cps, path) ==
    IF cps = << >> THEN << >>
    ELSE (IF (IF path THEN InPathSet(Head(cps)) ELSE InC0ControlSet(Head(cps)))
          THEN percentEncodeBytes(utf8Encode(Head(cps)))
          ELSE << fromCharCode(Head(cps)) >>)
         \o percentEncodeCodePoints(Tail(cps), path)

\* the code units a path segment keeps as they are
PathSafeChars == Range(Printable) \ { " ", "\"", "#", "<", ">", "?", "U+0060", "{", "}" }

\* UTF-8 percent-encode of a string with the path set (path) or the C0 control set
percentEncode(s, path) ==
    IF \A i \in DOMAIN s : s[i] \in PathSafeChars THEN s
    ELSE percentEncodeCodePoints(toCodePoints(s), path)

IsSingleDotSegment(buffer) == ignoreCase(buffer) \in { << "." >>, << "%", "2", "e" >> }

IsDoubleDotSegment(buffer) ==
    ignoreCase(buffer) \in { << ".", "." >>, << ".", "%", "2", "e" >>,
                             << "%", "2", "e", "." >>,
                             << "%", "2", "e", "%", "2", "e" >> }

IsWindowsDriveLetter(buffer) ==
    Len(buffer) = 2 /\ IsAsciiAlpha(buffer[1]) /\ buffer[2] \in { ":", "|" }

\* shorten a path: the last segment is removed.  The only segment of a file
\* URL's path stays when it starts with a letter and ":" (the runtime tests
\* the first two code units of the segment, not the whole segment).
shortenPath(path, isFile) ==
    IF /\ isFile /\ Len(path) = 1 /\ Len(path[1]) >= 2
       /\ IsAsciiAlpha(path[1][1]) /\ path[1][2] = ":"
    THEN path
    ELSE IF path = << >> THEN path
    ELSE SubSeq(path, 1, Len(path) - 1)

\* s.split(sep)
RECURSIVE splitOn(_, _)
splitOn(s, sep) ==
    LET i == firstIndexOf(s, { sep }, 1)
    IN  IF i = 0 THEN << s >>
        ELSE << SubSeq(s, 1, i - 1) >> \o splitOn(SubSeq(s, i + 1, Len(s)), sep)

\* the segments of text, appended to path, one segment at a time.  A
\* double-dot segment that ends the text leaves an empty last segment, except
\* on the empty path of a URL that is not special.
RECURSIVE pathSegments(_, _, _, _)
pathSegments(text, path, special, isFile) ==
    LET slash == firstIndexOf(text, IF special THEN { "/", "\\" } ELSE { "/" }, 1)
        atEnd == slash = 0
        buffer == percentEncode(IF atEnd THEN text ELSE SubSeq(text, 1, slash - 1), TRUE)
        next ==
            IF IsDoubleDotSegment(buffer)
            THEN (IF atEnd /\ (special \/ path # << >>)
                  THEN Append(shortenPath(path, isFile), << >>)
                  ELSE shortenPath(path, isFile))
            ELSE IF IsSingleDotSegment(buffer)
            THEN (IF atEnd THEN Append(path, << >>) ELSE path)
            ELSE IF isFile /\ path = << >> /\ IsWindowsDriveLetter(buffer)
            THEN << << buffer[1], ":" >> >>
            ELSE Append(path, buffer)
    IN  IF atEnd THEN next
        ELSE pathSegments(SubSeq(text, slash + 1, Len(text)), next, special, isFile)

\* the runtime takes the whole path as it is written, dot segments included:
\* the path has a dot but no code unit to encode, no backslash and no "%",
\* it does not start with a dot or (in a file URL) with a drive letter, and
\* its first "/." is followed by a code unit other than "." and "/".  Only
\* that first "/." is looked at, so a later "/./" or "/.." stays.
keepsDotSegments(text, isFile) ==
    /\ text # << >>
    /\ \A i \in DOMAIN text : text[i] \in PathSafeChars \ { "%", "\\" }
    /\ text[1] # "."
    /\ ~(/\ isFile /\ Len(text) >= 2
          /\ IsAsciiAlpha(text[1]) /\ text[2] \in { ":", "|" }
          /\ (Len(text) = 2 \/ text[3] = "/"))
    /\ \E i \in 1..(Len(text) - 2) :
           /\ text[i] = "/" /\ text[i + 1] = "."
           /\ \A j \in 1..(i - 1) : ~(text[j] = "/" /\ text[j + 1] = ".")
           /\ text[i + 2] \notin { ".", "/" }

\* path state, at the text after the slash that starts the path
pathState(text, path, special, isFile) ==
    IF path = << >> /\ keepsDotSegments(text, isFile)
    THEN splitOn(text, "/")
    ELSE pathSegments(text, path, special, isFile)

\* URL path serializer: "/" and the segment, for every segment
RECURSIVE serializePath(_)
serializePath(path) ==
    IF path = << >> THEN << >>
    ELSE << "/" >> \o Head(path) \o serializePath(Tail(path))

\* path start state, at what follows the host
pathStart(after, special, isFile) ==
    IF special
    THEN URLParsed(serializePath(pathState(
             IF after # << >> /\ after[1] \in { "/", "\\" } THEN Tail(after) ELSE after,
             << >>, TRUE, isFile)))
    ELSE IF after = << >> THEN URLParsed(<< >>)
    ELSE URLParsed(serializePath(pathState(
             IF after[1] = "/" THEN Tail(after) ELSE after, << >>, FALSE, FALSE)))

\* opaque path state: the C0 control set is encoded; a space stays, also
\* right before the query or the fragment
opaquePath(body) == percentEncode(body, FALSE)

\* the digits s in radix R added to hi * 65536 + lo; hi stops at 65536, which
\* stands for every number from 2^32 on
RECURSIVE ipv4Digits(_, _, _, _)
ipv4Digits(s, R, hi, lo) ==
    IF s = << >> THEN [ok |-> TRUE, hi |-> hi, lo |-> lo]
    ELSE IF ~IsHexDigit(Head(s)) \/ hexDigitValue(Head(s)) >= R
         THEN [ok |-> FALSE, hi |-> 0, lo |-> 0]
         ELSE LET lo2 == lo * R + hexDigitValue(Head(s))
                  hi2 == hi * R + (lo2 \div 65536)
              IN  ipv4Digits(Tail(s), R, IF hi2 > 65536 THEN 65536 ELSE hi2, lo2 % 65536)

\* IPv4 number parser
ipv4Number(part) ==
    IF part = << >> THEN [ok |-> FALSE, hi |-> 0, lo |-> 0]
    ELSE IF Len(part) >= 2 /\ part[1] = "0" /\ part[2] \in { "x", "X" }
         THEN ipv4Digits(SubSeq(part, 3, Len(part)), 16, 0, 0)
    ELSE IF Len(part) >= 2 /\ part[1] = "0" THEN ipv4Digits(Tail(part), 8, 0, 0)
    ELSE ipv4Digits(part, 10, 0, 0)

\* the parts of a domain, without the empty part a trailing dot leaves
ipv4Parts(domain) ==
    LET parts == splitOn(domain, ".")
    IN  IF parts[Len(parts)] = << >> /\ Len(parts) > 1
        THEN SubSeq(parts, 1, Len(parts) - 1)
        ELSE parts

\* ends-in-a-number checker
endsInNumber(domain) ==
    LET parts == ipv4Parts(domain)
        lastPart == parts[Len(parts)]
    IN  /\ lastPart # << >>
        /\ \/ \A i \in DOMAIN lastPart : IsAsciiDigit(lastPart[i])
           \/ ipv4Number(lastPart).ok

\* IPv4 parser: every part is a number, the parts before the last are at
\* most 255 and the last is less than 256^(5 - number of parts)
ipv4Parses(domain) ==
    LET parts == ipv4Parts(domain)
        n == Len(parts)
        lastNumber == ipv4Number(parts[n])
    IN  /\ n <= 4
        /\ \A i \in 1..n : ipv4Number(parts[i]).ok
        /\ \A i \in 1..(n - 1) : ipv4Number(parts[i]).hi = 0 /\ ipv4Number(parts[i]).lo <= 255
        /\ IF n = 4 THEN lastNumber.hi = 0 /\ lastNumber.lo <= 255
           ELSE IF n = 3 THEN lastNumber.hi = 0
           ELSE IF n = 2 THEN lastNumber.hi < 256
           ELSE lastNumber.hi < 65536

\* the hexadecimal digits of s at p, four at most
RECURSIVE hexRun(_, _, _)
hexRun(s, p, n) ==
    IF n < 4 /\ p <= Len(s) /\ IsHexDigit(s[p]) THEN hexRun(s, p + 1, n + 1) ELSE n

\* one decimal part of the IPv4 tail of an IPv6 address: the index after
\* it, 0 when it has a leading zero or is above 255
RECURSIVE ipv4Piece(_, _, _)
ipv4Piece(s, p, piece) ==
    IF p > Len(s) \/ ~IsAsciiDigit(s[p]) THEN p
    ELSE IF piece = 0 THEN 0
    ELSE IF piece * 10 + hexDigitValue(s[p]) > 255 THEN 0
    ELSE ipv4Piece(s, p + 1, piece * 10 + hexDigitValue(s[p]))

\* the IPv4 tail of an IPv6 address from p, of which seen parts were read
RECURSIVE ipv4InIpv6(_, _, _)
ipv4InIpv6(s, p, seen) ==
    IF p > Len(s) THEN seen = 4
    ELSE LET start == IF seen = 0 THEN p
                      ELSE IF s[p] = "." /\ seen < 4 THEN p + 1
                      ELSE 0
         IN  IF start = 0 \/ start > Len(s) \/ ~IsAsciiDigit(s[start]) THEN FALSE
             ELSE LET next == ipv4Piece(s, start + 1, hexDigitValue(s[start]))
                  IN  next # 0 /\ ipv4InIpv6(s, next, seen + 1)

\* IPv6 parser from p: pieceIndex pieces were read, compress is set when
\* "::" was seen
RECURSIVE ipv6Pieces(_, _, _, _)
ipv6Pieces(s, p, pieceIndex, compress) ==
    IF p > Len(s) THEN compress \/ pieceIndex = 8
    ELSE IF pieceIndex = 8 THEN FALSE
    ELSE IF s[p] = ":"
         THEN ~compress /\ ipv6Pieces(s, p + 1, pieceIndex + 1, TRUE)
    ELSE LET length == hexRun(s, p, 0)
             q == p + length
         IN  IF q > Len(s) THEN ipv6Pieces(s, q, pieceIndex + 1, compress)
             ELSE IF s[q] = "."
             THEN /\ length # 0
                  /\ pieceIndex <= 6
                  /\ ipv4InIpv6(s, p, 0)
                  /\ (compress \/ pieceIndex + 2 = 8)
             ELSE IF s[q] = ":"
             THEN q + 1 <= Len(s) /\ ipv6Pieces(s, q + 1, pieceIndex + 1, compress)
             ELSE FALSE

ipv6Parses(s) ==
    IF s # << >> /\ s[1] = ":"
    THEN Len(s) >= 2 /\ s[2] = ":" /\ ipv6Pieces(s, 3, 1, TRUE)
    ELSE ipv6Pieces(s, 1, 0, FALSE)

\* percent-decode: "%" and two hexadecimal digits become the byte
RECURSIVE percentDecode(_)
percentDecode(s) ==
    IF s = << >> THEN << >>
    ELSE IF s[1] = "%" /\ Len(s) >= 3 /\ IsHexDigit(s[2]) /\ IsHexDigit(s[3])
         THEN << fromCharCode(16 * hexDigitValue(s[2]) + hexDigitValue(s[3])) >>
              \o percentDecode(SubSeq(s, 4, Len(s)))
         ELSE << Head(s) >> \o percentDecode(Tail(s))

\* forbidden host code points: NUL tab LF CR space # / : < > ? @ [ \ ] ^ |
ForbiddenHostCodes == { 0, 9, 10, 13, 32, 35, 47, 58, 60, 62, 63, 64, 91, 92, 93, 94, 124 }

\* forbidden domain code points: these, the C0 controls, % and U+007F
ForbiddenDomainCodes == ForbiddenHostCodes \cup (0..31) \cup { 37, 127 }

\* host parser: the host is accepted.  A domain needs IDNA processing when
\* it has a code unit above U+007F or a label that starts with xn--; a
\* surrogate without its partner is rejected by every runtime, and for the
\* rest idnaAccepts says whether domain to ASCII and the checks after it
\* accept the domain.
hostParses(host, opaque, idnaAccepts) ==
    IF host # << >> /\ host[1] = "["
    THEN host[Len(host)] = "]" /\ ipv6Parses(SubSeq(host, 2, Len(host) - 1))
    ELSE IF opaque
    THEN \A i \in DOMAIN host : charCode(host[i]) \notin ForbiddenHostCodes
    ELSE LET domain == ignoreCase(percentDecode(host))
             labels == splitOn(domain, ".")
             needsIdna ==
                 \/ \E i \in DOMAIN domain : charCode(domain[i]) > 127
                 \/ \E l \in DOMAIN labels :
                        /\ Len(labels[l]) >= 4
                        /\ SubSeq(labels[l], 1, 4) = << "x", "n", "-", "-" >>
             codePoints == toCodePoints(domain)
         IN  /\ domain # << >>
             /\ \A i \in DOMAIN domain : charCode(domain[i]) \notin ForbiddenDomainCodes
             /\ IF needsIdna
                THEN /\ \A i \in DOMAIN codePoints :
                            ~(IsHighSurrogate(codePoints[i]) \/ IsLowSurrogate(codePoints[i]))
                     /\ idnaAccepts
                ELSE endsInNumber(domain) => ipv4Parses(domain)

\* the index of the first ":" of the host and port that is outside "[ ]", 0
\* when there is none
RECURSIVE portColon(_, _, _)
portColon(s, i, insideBrackets) ==
    IF i > Len(s) THEN 0
    ELSE IF s[i] = ":" /\ ~insideBrackets THEN i
    ELSE portColon(s, i + 1, IF s[i] = "[" THEN TRUE
                             ELSE IF s[i] = "]" THEN FALSE
                             ELSE insideBrackets)

\* port state: digits only, and a number up to 65535
portParses(port) ==
    /\ \A i \in DOMAIN port : IsAsciiDigit(port[i])
    /\ LET value == ipv4Digits(port, 10, 0, 0)
       IN  value.hi = 0

\* the last index of c in s, 0 when there is none
RECURSIVE lastIndexOf(_, _, _)
lastIndexOf(s, c, i) ==
    IF i < 1 THEN 0 ELSE IF s[i] = c THEN i ELSE lastIndexOf(s, c, i - 1)

\* authority state, host state and port state, at what follows the slashes
authorityAndPath(text, special, isFile, idnaAccepts) ==
    LET slash == firstIndexOf(text, IF special THEN { "/", "\\" } ELSE { "/" }, 1)
        authority == IF slash = 0 THEN text ELSE SubSeq(text, 1, slash - 1)
        after == IF slash = 0 THEN << >> ELSE SubSeq(text, slash, Len(text))
        at == lastIndexOf(authority, "@", Len(authority))
        hostAndPort == SubSeq(authority, at + 1, Len(authority))
        colon == portColon(hostAndPort, 1, FALSE)
        host == IF colon = 0 THEN hostAndPort ELSE SubSeq(hostAndPort, 1, colon - 1)
        port == IF colon = 0 THEN << >>
                ELSE SubSeq(hostAndPort, colon + 1, Len(hostAndPort))
    IN  IF at # 0 /\ hostAndPort = << >> THEN URLFailure
        ELSE IF host = << >> /\ (colon # 0 \/ special) THEN URLFailure
        ELSE IF ~hostParses(host, ~special, idnaAccepts) THEN URLFailure
        ELSE IF ~portParses(port) THEN URLFailure
        ELSE pathStart(after, special, isFile)

\* file state, file slash state and file host state
fileStates(body, idnaAccepts) ==
    IF body = << >> \/ body[1] \notin { "/", "\\" }
    THEN URLParsed(serializePath(pathState(body, << >>, TRUE, TRUE)))
    ELSE IF Len(body) < 2 \/ body[2] \notin { "/", "\\" }
    THEN URLParsed(serializePath(pathState(Tail(body), << >>, TRUE, TRUE)))
    ELSE LET text == SubSeq(body, 3, Len(body))
             slash == firstIndexOf(text, { "/", "\\" }, 1)
             buffer == IF slash = 0 THEN text ELSE SubSeq(text, 1, slash - 1)
             after == IF slash = 0 THEN << >> ELSE SubSeq(text, slash, Len(text))
         IN  IF IsWindowsDriveLetter(buffer)
             THEN URLParsed(serializePath(pathState(text, << >>, TRUE, TRUE)))
             ELSE IF buffer = << >> THEN pathStart(after, TRUE, TRUE)
             ELSE IF ~hostParses(buffer, FALSE, idnaAccepts) THEN URLFailure
             ELSE pathStart(after, TRUE, TRUE)

\* the slashes and backslashes after the scheme of a special URL are skipped
RECURSIVE skipSlashes(_)
skipSlashes(s) ==
    IF s # << >> /\ Head(s) \in { "/", "\\" } THEN skipSlashes(Tail(s)) ELSE s

\* new URL(src): whether it parses, and its pathname
parseURL(src, idnaAccepts) ==
    LET input == urlInput(src)
        colon == schemeEnd(input, 1)
        scheme == ignoreCase(SubSeq(input, 1, colon - 1))
        rest == SubSeq(input, colon + 1, Len(input))
        cut == firstIndexOf(rest, { "?", "#" }, 1)
        body == IF cut = 0 THEN rest ELSE SubSeq(rest, 1, cut - 1)
    IN  IF colon = 0 THEN URLFailure
        ELSE IF scheme = FileScheme THEN fileStates(body, idnaAccepts)
        ELSE IF scheme \in SpecialSchemes
        THEN authorityAndPath(skipSlashes(body), TRUE, FALSE, idnaAccepts)
        ELSE IF body # << >> /\ body[1] = "/"
        THEN (IF Len(body) >= 2 /\ body[2] = "/"
              THEN authorityAndPath(SubSeq(body, 3, Len(body)), FALSE, FALSE, idnaAccepts)
              ELSE URLParsed(serializePath(pathState(Tail(body), << >>, FALSE, FALSE))))
        ELSE URLParsed(opaquePath(body))

\* new URL(src) does not throw
isAbsoluteUrl(src, idnaAccepts) == parseURL(src, idnaAccepts).ok

\* new URL(src).pathname
urlPathname(src, idnaAccepts) == parseURL(src, idnaAccepts).pathname

IsLineTerminator(c) ==
    IF Len(c) = 1 THEN c \in { "\n", "\r" } ELSE charCode(c) \in { 10, 13, 8232, 8233 }

\* file.replace(/\.(mp3|ogg|wav)(\?.*)?$/i, ""): the leftmost match is
\* removed; "." matches no line terminator and "$" the end of the text only
RECURSIVE stripSoundExtension(_, _)
stripSoundExtension(file, i) ==
    IF i + 3 > Len(file) THEN file
    ELSE IF /\ file[i] = "."
            /\ ignoreCase(SubSeq(file, i + 1, i + 3)) \in SoundFileExtensions
            /\ \/ i + 3 = Len(file)
               \/ /\ file[i + 4] = "?"
                  /\ \A j \in (i + 5)..Len(file) : ~IsLineTerminator(file[j])
         THEN SubSeq(file, 1, i - 1)
         ELSE stripSoundExtension(file, i + 1)

\* the text split at "/": url.pathname of the parsed URL, and src itself
\* in the catch branch
pathnameOr(url, src) == IF url.ok THEN url.pathname ELSE src

\* the string, or << >> for null and for the empty string (both are falsy)
getMediaElementSoundId(elSrc, idnaAccepts) ==
    LET src == trim(elSrc)
    IN  IF src = << >> THEN << >>
        ELSE stripSoundExtension(lastSegment(pathnameOr(parseURL(src, idnaAccepts), src)), 1)

----------------------------------------------------------------------------
(* The host function table and the wrappers.  A function value is a number: *)
(* 0 is the host's own function, n + 1 is the engine's wrapper whose saved  *)
(* original is n.                                                           *)

HostOriginal == 0
Null == -1

SoundModule == "SoundModule"
NotificationSettingsStore == "NotificationSettingsStore"
Targets == { SoundModule, NotificationSettingsStore }

\* the properties of the resolved sound module that are functions: each of
\* the names of SOUND_FUNCTIONS
ModuleFunctions == { "playSound", "playSoundPack", "playSoundAtVolume",
                     "playSoundWithVolume", "playSoundWithVolumeAndPan" }

FnSlots == ModuleFunctions \cup { "isSoundDisabled", "play", "start", "dispatch" }

Wrapper(original) == original + 1
IsWrapper(f) == f > HostOriginal

\* the receiver of a call: the module (module.playSound(...)), or undefined
\* (the function called on its own); NoReceiver when nothing was applied
ThisModule == "module"
ThisUndefined == "undefined"
NoReceiver == "none"

\* what a call did: suppressed (the original was not reached), how often the
\* host's own function ran, and, for a sound function, the arguments and the
\* receiver its original was applied to and the value the caller got back
Outcome(suppressed, origCalls) ==
    [suppressed |-> suppressed, origCalls |-> origCalls, args |-> << >>,
     receiver |-> NoReceiver, returned |-> Undefined]

\* a plausible slip: the wrapper calls the original, not original.apply(this, args)
RECURSIVE callSoundFunction_noReceiver(_, _, _, _, _, _)
callSoundFunction_noReceiver(f, thisArg, soundArg, optionsArg, rest, hostResult) ==
    IF ~IsWrapper(f)
    THEN [Outcome(FALSE, 1) EXCEPT !.args = << soundArg, optionsArg >> \o rest,
                                   !.receiver = thisArg,
                                   !.returned = hostResult]
    ELSE IF shouldSuppress(soundArg, optionsArg) THEN Outcome(TRUE, 0)
    ELSE callSoundFunction_noReceiver(f - 1, ThisUndefined, soundArg, optionsArg, rest,
                                      hostResult)

\* a sound-module function value f called on thisArg with the arguments
\* (soundArg, optionsArg, ...rest); hostResult is what the host's own
\* function returns when it is reached
RECURSIVE callSoundFunction(_, _, _, _, _, _)
callSoundFunction(f, thisArg, soundArg, optionsArg, rest, hostResult) ==
    IF ~IsWrapper(f)
    THEN [Outcome(FALSE, 1) EXCEPT !.args = << soundArg, optionsArg >> \o rest,
                                   !.receiver = thisArg,
                                   !.returned = hostResult]
    ELSE IF shouldSuppress(soundArg, optionsArg) THEN Outcome(TRUE, 0)
    ELSE callSoundFunction(f - 1, thisArg, soundArg, optionsArg, rest, hostResult)

\* store.isSoundDisabled value f called with (sound)
RECURSIVE callIsSoundDisabled(_, _)
callIsSoundDisabled(f, sound) ==
    IF ~IsWrapper(f) THEN Outcome(FALSE, 1)
    ELSE IF /\ isActive
            /\ isSelfDeafened
            /\ getVoiceChannelId # NoChannel
            /\ isVoiceChannelSfxSoundId(sound)
    THEN Outcome(TRUE, 0)
    ELSE callIsSoundDisabled(f - 1, sound)

\* the body of the play wrapper once it has soundId, the result of
\* getMediaElementSoundId(this)
playWrapper(soundId) ==
    IF /\ isActive
       /\ isSelfDeafened
       /\ getVoiceChannelId # NoChannel
       /\ soundId # << >>
       /\ isVoiceChannelSfxSoundId(soundId)
    THEN Outcome(TRUE, 0)
    ELSE IF shouldSuppressAnySfxNow THEN Outcome(TRUE, 0)
    ELSE Outcome(FALSE, 1)

\* HTMLMediaElement.prototype.play value f called on an element with source
\* elSrc, in a runtime whose domain to ASCII answers idnaAccepts
callHtmlMediaPlay(f, elSrc, idnaAccepts) ==
    IF ~IsWrapper(f) THEN Outcome(FALSE, 1)
    ELSE playWrapper(getMediaElementSoundId(elSrc, idnaAccepts))

\* AudioBufferSourceNode.prototype.start value f called
callAudioBufferStart(f) ==
    IF ~IsWrapper(f) THEN Outcome(FALSE, 1)
    ELSE IF shouldSuppressAnySfxNow THEN Outcome(TRUE, 0)
    ELSE Outcome(FALSE, 1)

----------------------------------------------------------------------------
(* Installing and removing the patches.  The installers are written over   *)
(* the patch state they read and return the one they leave, because        *)
(* start() and a module resolution run several of them in one step.        *)

PatchState(table, records, targets) ==
    [fns |-> table, patchedFunctions |-> records, patchedTargets |-> targets]

PatchedFunction(key, original, target) ==
    [key |-> key, original |-> original, target |-> target]

\* the loop of patchSoundFunctions over the keys that are left; count is patchedCount
RECURSIVE patchSoundFunctionsLoop(_, _, _, _)
patchSoundFunctionsLoop(keys, target, ps, count) ==
    IF keys = << >> THEN [ps |-> ps, patchedCount |-> count]
    ELSE LET key == Head(keys)
             original == ps.fns[key]
         IN  IF key \notin ModuleFunctions
             THEN patchSoundFunctionsLoop(Tail(keys), target, ps, count)
             ELSE patchSoundFunctionsLoop(
                      Tail(keys), target,
                      PatchState([ps.fns EXCEPT ![key] = Wrapper(original)],
                                 Append(ps.patchedFunctions,
                                        PatchedFunction(key, original, target)),
                                 ps.patchedTargets),
                      count + 1)

patchSoundFunctions(target, ps) == patchSoundFunctionsLoop(SOUND_FUNCTIONS, target, ps, 0)

handleSoundModule(module, ps, active) ==
    IF ~active THEN ps
    ELSE IF module \in ps.patchedTargets THEN ps
    ELSE LET r == patchSoundFunctions(module, ps)
         IN  IF r.patchedCount > 0
             THEN PatchState(r.ps.fns, r.ps.patchedFunctions,
                             r.ps.patchedTargets \cup { module })
             ELSE r.ps

patchNotificationSettingsStore(store, ps) ==
    LET original == ps.fns["isSoundDisabled"]
    IN  PatchState([ps.fns EXCEPT !["isSoundDisabled"] = Wrapper(original)],
                   Append(ps.patchedFunctions,
                          PatchedFunction("isSoundDisabled", original, store)),
                   ps.patchedTargets)

\* the loop of unpatchAll over the records that are left
RECURSIVE unpatchAllLoop(_, _)
unpatchAllLoop(records, table) ==
    IF records = << >> THEN table
    ELSE unpatchAllLoop(Tail(records),
                        [table EXCEPT ![Head(records).key] = Head(records).original])

unpatchAll(ps) == PatchState(unpatchAllLoop(ps.patchedFunctions, ps.fns), << >>,
                             ps.patchedTargets)

----------------------------------------------------------------------------
(* waitFor: the three subscriptions start() registers, by the filter they  *)
(* were registered with.  A subscription whose module is already resolved  *)
(* runs its callback at once; the others run, in registration order, when  *)
(* the module resolves, and are then dropped.                              *)

WaitForFilters == << "playSound", "playSoundPack", "NotificationSettingsStore" >>

FilterTarget(filter) ==
    IF filter = "NotificationSettingsStore" THEN NotificationSettingsStore ELSE SoundModule

\* the callback start() passes to waitFor for this filter
waitForCallback(filter, ps, active) ==
    IF filter = "NotificationSettingsStore"
    THEN patchNotificationSettingsStore(NotificationSettingsStore, ps)
    ELSE handleSoundModule(SoundModule, ps, active)

\* the three waitFor calls of start(), over the filters that are left
RECURSIVE waitForAll(_, _, _)
waitForAll(filters, ps, pending) ==
    IF filters = << >> THEN [ps |-> ps, subs |-> pending]
    ELSE IF FilterTarget(Head(filters)) \in loaded
         THEN waitForAll(Tail(filters), waitForCallback(Head(filters), ps, TRUE), pending)
         ELSE waitForAll(Tail(filters), ps, Append(pending, Head(filters)))

\* the callbacks of the pending subscriptions for module, in registration order
RECURSIVE runSubscriptions(_, _, _, _)
runSubscriptions(pending, module, ps, active) ==
    IF pending = << >> THEN ps
    ELSE IF FilterTarget(Head(pending)) = module
         THEN runSubscriptions(Tail(pending), module,
                               waitForCallback(Head(pending), ps, active), active)
         ELSE runSubscriptions(Tail(pending), module, ps, active)

PendingFor(pending, filter) == Cardinality({ i \in DOMAIN pending : pending[i] = filter })

----------------------------------------------------------------------------
(* Inputs *)

ChannelC == << "C" >>
ChannelD == << "D" >>
Channels == { ChannelC, ChannelD }

HalfWindow == SUPPRESS_WINDOW_MS \div 2
ClockStart == SUPPRESS_WINDOW_MS + SUPPRESS_WINDOW_MS
ClockEnd == ClockStart + MaxSteps * HalfWindow

\* (soundArg, optionsArg) of the calls of the sound-module functions
CallArgs == <<
    << JSString(<<"m","e","s","s","a","g","e","_","n","o","t","i","f","y","_","d","m">>),
       JSObject(<< >>) >>,
    << JSObject([sound |-> JSString(<<"u","s","e","r","_","j","o","i","n","_","4","2">>)]),
       JSObject([channelId |-> JSString(ChannelC)]) >>,
    << JSString(<<"u","s","e","r","_","j","o","i","n">>), Undefined >>,
    << JSString(<<"m","e","s","s","a","g","e","_","n","o","t","i","f","y">>),
       JSObject([channelId |-> JSString(ChannelC)]) >>,
    << JSObject([targetChannelId |-> JSString(ChannelD)]), Undefined >>,
    << JSNumber(7),
       JSObject([channelId |-> JSNumber(123), voiceChannelId |-> JSString(ChannelC)]) >>,
    << JSObject([sound |-> JSObject([name |->
                    JSString(<<"S","T","R","E","A","M","-","s","t","a","r","t">>)])]),
       JSNull >>,
    << Undefined, JSObject([type |-> JSString(<<"p","i","n","g">>)]) >>
>>

\* the receivers the host calls a sound function on
Receivers == { ThisModule, ThisUndefined }

\* the arguments after the second one: none, or a volume
RestArgs == { << >>, << JSNumber(1) >> }

\* what the host's own sound function returns
HostResults == { Undefined, JSObject([id |-> JSNumber(9)]) }

\* the argument of the calls of isSoundDisabled
SoundNames == <<
    <<"m","e","s","s","a","g","e","_","n","o","t","i","f","y">>,
    <<"u","s","e","r","_","j","o","i","n">>,
    <<"s","t","r","e","a","m","-","s","t","a","r","t">>,
    <<"i","n","v","i","t","e","d","_","t","o","_","s","p","e","a","U+212A">>
>>

\* currentSrc || src of the media elements that are played
MediaSrcs == <<
    <<"h","t","t","p","s",":","/","/","d","/","s","/","u","s","e","r","_","j","o","i","n",".","m","p","3">>,
    <<"h","t","t","p","s",":","/","/","d","/","s","/","m","e","s","s","a","g","e","1",".","m","p","3","?","v","=","2">>,
    <<"/","s","/","s","t","r","e","a","m","-","s","t","a","r","t",".","O","G","G">>,
    << >>,
    <<"h","t","t","p","s",":","/","/","d","/","s","/","u","s","e","r"," ","j","o","i","n",".","m","p","3","\n">>,
    <<"h","t","t","p","s",":","/","/","x","n","-","-","/","s","/","u","s","e","r","_","j","o","i","n",".","m","p","3","?","v","=","a","/","b">>,
    <<"h","t","t","p","s",":","/","/","d","/","s","/",".","a","/","u","s","e","r","_","j","o","i","n",".","m","p","3","/",".",".">>
>>

\* the payload types the dispatch hook opens a window for
WindowEventTypes == { "VOICE_STATE_UPDATES", "STREAMING_UPDATE", "STREAM_CREATE",
                      "STREAM_START", "STREAM_STOP", "STREAM_DELETE",
                      "RTC_CONNECTION_CLIENT_CONNECT", "RTC_CONNECTION_CLIENT_DISCONNECT" }

VoiceStateChange(channelId, oldChannelId) ==
    [channelId |-> channelId, oldChannelId |-> oldChannelId]

Payload(type, voiceStates) == [type |-> type, voiceStates |-> voiceStates]

\* getMediaElementSoundId of each of these elements, for either answer of the
\* runtime's domain to ASCII
MediaSoundIds ==
    [i \in DOMAIN MediaSrcs |->
        [idnaAccepts \in BOOLEAN |-> getMediaElementSoundId(MediaSrcs[i], idnaAccepts)]]

\* the payloads the host dispatches
Payloads == <<
    Payload("VOICE_STATE_UPDATES", << VoiceStateChange(ChannelC, NoChannel) >>),
    Payload("VOICE_STATE_UPDATES", << VoiceStateChange(NoChannel, ChannelD),
                                      VoiceStateChange(ChannelD, ChannelC) >>),
    Payload("VOICE_STATE_UPDATES", << >>),
    Payload("STREAMING_UPDATE", << >>),
    Payload("STREAM_CREATE", << >>),
    Payload("STREAM_START", << >>),
    Payload("STREAM_STOP", << >>),
    Payload("STREAM_DELETE", << >>),
    Payload("RTC_CONNECTION_CLIENT_CONNECT", << >>),
    Payload("RTC_CONNECTION_CLIENT_DISCONNECT", << >>),
    Payload("MESSAGE_CREATE", << >>)
>>

----------------------------------------------------------------------------
(* The operations *)

\* what the tracker found when it ran in the last operation: how the host
\* differed from the snapshot it was entered with, and whether it moved the window
NoTick == [ran |-> FALSE, known |-> FALSE, chanDiff |-> FALSE, memDiff |-> FALSE,
           strDiff |-> FALSE, moved |-> FALSE]

TickSeen(r) ==
    IF ~r.ran THEN NoTick
    ELSE [ran |-> TRUE,
          known |-> members # Absent,
          chanDiff |-> lastVoiceChannelId # vc,
          memDiff |-> members # lastMemberCount,
          strDiff |-> streams # lastStreamCount,
          moved |-> r.suppressUntil # r.before]

\* what the last operation was and did.  thisArg, rest and hostResult are
\* the receiver, the further arguments and the host's result of a
\* sound-function call; threw says that the dispatch hook's inspection threw.
Last(op, arg, outcome, calls, tick) ==
    [op |-> op, arg |-> arg, suppressed |-> outcome.suppressed,
     origCalls |-> outcome.origCalls, forwarded |-> outcome.args,
     receiver |-> outcome.receiver, returned |-> outcome.returned,
     thisArg |-> NoReceiver, rest |-> << >>, hostResult |-> Undefined,
     threw |-> FALSE,
     calls |-> calls, tick |-> tick, soundId |-> << >>]

Idle == Last("host", 0, Outcome(FALSE, 0), << >>, NoTick)

TypeOK ==
    /\ now \in ClockStart..ClockEnd
    /\ deaf \in BOOLEAN /\ mediaEngineOk \in BOOLEAN /\ isActive \in BOOLEAN
    /\ vc \in Channels \cup { NoChannel }
    /\ members \in { Absent } \cup 0..MaxMembers
    /\ streams \in 0..MaxMembers
    /\ loaded \subseteq Targets
    /\ patchedTargets \subseteq Targets
    /\ \A k \in FnSlots : fns[k] \in Nat
    /\ suppressUntil \in Nat
    /\ lastVoiceChannelId \in Channels \cup { NoChannel }
    /\ lastMemberCount \in 0..MaxMembers /\ lastStreamCount \in 0..MaxMembers

InitProgram ==
    /\ now = ClockStart
    /\ deaf = FALSE
    /\ vc = NoChannel
    /\ members = 0
    /\ streams = 0
    /\ subs = << >>
    /\ fns = [k \in FnSlots |-> HostOriginal]
    /\ isActive = FALSE
    /\ suppressUntil = 0
    /\ lastVoiceChannelId = NoChannel
    /\ lastMemberCount = 0
    /\ lastStreamCount = 0
    /\ patchedFunctions = << >>
    /\ patchedTargets = { }
    /\ originalHtmlMediaPlay = Null
    /\ originalAudioBufferStart = Null
    /\ originalFluxDispatch = Null
    /\ last = Last("init", 0, Outcome(FALSE, 0), << >>, NoTick)

NoString == [op |-> "none"]

\* the auto-sync script is not run
NoScript == [pc |-> "none"]

\* the plugin is constructed before or after the host resolved its modules
Init ==
    /\ InitProgram
    /\ mediaEngineOk \in BOOLEAN
    /\ loaded \in SUBSET Targets
    /\ pin = << >>
    /\ pout = NoString
    /\ sync = NoScript

(* Host: the clock and the voice state *)

Advance ==
    /\ now + HalfWindow <= ClockEnd
    /\ now' = now + HalfWindow
    /\ last' = Idle
    /\ UNCHANGED << deaf, mediaEngineOk, vc, members, streams >>
    /\ UNCHANGED << engineVars, patchVars, strVars, scriptVars >>

ToggleDeaf ==
    /\ deaf' = ~deaf
    /\ last' = Idle
    /\ UNCHANGED << now, mediaEngineOk, vc, members, streams >>
    /\ UNCHANGED << engineVars, patchVars, strVars, scriptVars >>

\* the user joins or switches to channel c, whose voice states are (m, s)
SelectChannel(c, m, s) ==
    /\ c # vc
    /\ vc' = c
    /\ members' = m
    /\ streams' = s
    /\ last' = Idle
    /\ UNCHANGED << now, deaf, mediaEngineOk >>
    /\ UNCHANGED << engineVars, patchVars, strVars, scriptVars >>

LeaveChannel ==
    /\ vc # NoChannel
    /\ vc' = NoChannel
    /\ members' = 0
    /\ streams' = 0
    /\ last' = Idle
    /\ UNCHANGED << now, deaf, mediaEngineOk >>
    /\ UNCHANGED << engineVars, patchVars, strVars, scriptVars >>

\* members join, leave, start or stop streaming in the user's channel
VoiceStatesChange(m, s) ==
    /\ vc # NoChannel
    /\ << m, s >> # << members, streams >>
    /\ members' = m
    /\ streams' = s
    /\ last' = Idle
    /\ UNCHANGED << now, deaf, mediaEngineOk, vc >>
    /\ UNCHANGED << engineVars, patchVars, strVars, scriptVars >>

\* the voice states a channel can have: no mapping, or m members of which s stream
VoiceStates == { << Absent, 0 >> } \cup { << m, s >> \in (0..MaxMembers) \X (0..MaxMembers) : s <= m }

(* The plugin: start, stop, the waitFor callbacks *)

\* start() runs when the plugin is enabled, stop() when it is disabled
Start ==
    /\ ~isActive
    /\ \A f \in Range(WaitForFilters) :
           FilterTarget(f) \notin loaded => PendingFor(subs, f) < MaxSubs
    /\ LET tick == [updateVoiceCountsAndMaybeSuppress(suppressUntil)
                       EXCEPT !.before = suppressUntil]
           \* patchFluxDispatch
           t1 == IF originalFluxDispatch # Null THEN fns
                 ELSE [fns EXCEPT !["dispatch"] = Wrapper(fns["dispatch"])]
           \* patchLowLevelAudioPlayback
           t2 == IF originalHtmlMediaPlay # Null THEN t1
                 ELSE [t1 EXCEPT !["play"] = Wrapper(t1["play"])]
           t3 == IF originalAudioBufferStart # Null THEN t2
                 ELSE [t2 EXCEPT !["start"] = Wrapper(t2["start"])]
           w == waitForAll(WaitForFilters,
                           PatchState(t3, patchedFunctions, patchedTargets), subs)
       IN  /\ isActive' = TRUE
           /\ lastVoiceChannelId' = tick.lastVoiceChannelId
           /\ lastMemberCount' = tick.lastMemberCount
           /\ lastStreamCount' = tick.lastStreamCount
           /\ suppressUntil' = tick.suppressUntil
           /\ originalFluxDispatch' =
                  IF originalFluxDispatch # Null THEN originalFluxDispatch ELSE fns["dispatch"]
           /\ originalHtmlMediaPlay' =
                  IF originalHtmlMediaPlay # Null THEN originalHtmlMediaPlay ELSE fns["play"]
           /\ originalAudioBufferStart' =
                  IF originalAudioBufferStart # Null THEN originalAudioBufferStart
                  ELSE fns["start"]
           /\ fns' = w.ps.fns
           /\ patchedFunctions' = w.ps.patchedFunctions
           /\ patchedTargets' = w.ps.patchedTargets
           /\ subs' = w.subs
           /\ last' = Last("start", 0, Outcome(FALSE, 0), tick.calls, TickSeen(tick))
    /\ UNCHANGED << hostVars, loaded, strVars, scriptVars >>

\* a plausible slip: stop() also resets the window
Stop_resetWindow ==
    /\ isActive
    /\ LET u == unpatchAll(PatchState(fns, patchedFunctions, patchedTargets))
           t1 == IF originalHtmlMediaPlay # Null
                 THEN [u.fns EXCEPT !["play"] = originalHtmlMediaPlay] ELSE u.fns
           t2 == IF originalAudioBufferStart # Null
                 THEN [t1 EXCEPT !["start"] = originalAudioBufferStart] ELSE t1
           t3 == IF originalFluxDispatch # Null
                 THEN [t2 EXCEPT !["dispatch"] = originalFluxDispatch] ELSE t2
       IN  /\ isActive' = FALSE
           /\ fns' = t3
           /\ patchedFunctions' = u.patchedFunctions
           /\ patchedTargets' = { }
           /\ originalHtmlMediaPlay' = Null
           /\ originalAudioBufferStart' = Null
           /\ originalFluxDispatch' = Null
           /\ suppressUntil' = 0
           /\ last' = Last("stop", 0, Outcome(FALSE, 0), << >>, NoTick)
    /\ UNCHANGED << hostVars, loaded, subs, strVars, scriptVars >>
    /\ UNCHANGED << lastVoiceChannelId, lastMemberCount, lastStreamCount >>

Stop ==
    /\ isActive
    /\ LET u == unpatchAll(PatchState(fns, patchedFunctions, patchedTargets))
           \* unpatchLowLevelAudioPlayback
           t1 == IF originalHtmlMediaPlay # Null
                 THEN [u.fns EXCEPT !["play"] = originalHtmlMediaPlay] ELSE u.fns
           t2 == IF originalAudioBufferStart # Null
                 THEN [t1 EXCEPT !["start"] = originalAudioBufferStart] ELSE t1
           \* unpatchFluxDispatch
           t3 == IF originalFluxDispatch # Null
                 THEN [t2 EXCEPT !["dispatch"] = originalFluxDispatch] ELSE t2
       IN  /\ isActive' = FALSE
           /\ fns' = t3
           /\ patchedFunctions' = u.patchedFunctions
           /\ patchedTargets' = { }
           /\ originalHtmlMediaPlay' = Null
           /\ originalAudioBufferStart' = Null
           /\ originalFluxDispatch' = Null
           /\ last' = Last("stop", 0, Outcome(FALSE, 0), << >>, NoTick)
    /\ UNCHANGED << hostVars, loaded, subs, strVars, scriptVars >>
    /\ UNCHANGED << suppressUntil, lastVoiceChannelId, lastMemberCount, lastStreamCount >>

\* the host resolves a module: the pending subscriptions for it run their callbacks
ModuleResolved(module) ==
    /\ module \notin loaded
    /\ loaded' = loaded \cup { module }
    /\ LET ps == runSubscriptions(subs, module,
                                  PatchState(fns, patchedFunctions, patchedTargets),
                                  isActive)
       IN  /\ fns' = ps.fns
           /\ patchedFunctions' = ps.patchedFunctions
           /\ patchedTargets' = ps.patchedTargets
    /\ subs' = SelectSeq(subs, LAMBDA f : FilterTarget(f) # module)
    /\ last' = Last("resolve", 0, Outcome(FALSE, 0), << >>, NoTick)
    /\ UNCHANGED << hostVars, engineVars, strVars, scriptVars >>
    /\ UNCHANGED << originalHtmlMediaPlay, originalAudioBufferStart, originalFluxDispatch >>

(* The flux handlers and the dispatch hook *)

Unchanged(su, calls) ==
    [Snapshot(lastVoiceChannelId, lastMemberCount, lastStreamCount, su, calls)
        EXCEPT !.ran = FALSE]

\* flux.VOICE_STATE_UPDATES({ voiceStates }), from suppressUntil = su
fluxVoiceStateUpdates(voiceStates, su) ==
    IF ~isActive THEN Unchanged(su, << >>)
    ELSE IF ~isSelfDeafened THEN Unchanged(su, << >>)
    ELSE IF getVoiceChannelId = NoChannel THEN Unchanged(su, << >>)
    ELSE LET hit == \E i \in DOMAIN voiceStates :
                        \/ voiceStates[i].channelId = getVoiceChannelId
                        \/ voiceStates[i].oldChannelId = getVoiceChannelId
             su1 == IF hit THEN triggerSuppressionWindow(su) ELSE su
             calls == IF hit THEN << TriggerCall("VOICE_STATE_UPDATES", "handler") >>
                      ELSE << >>
             tick == updateVoiceCountsAndMaybeSuppress(su1)
         IN  [tick EXCEPT !.calls = calls \o @, !.before = su1]

\* flux.STREAMING_UPDATE(), from suppressUntil = su
fluxStreamingUpdate(su) ==
    IF ~isActive THEN Unchanged(su, << >>)
    ELSE IF ~isSelfDeafened THEN Unchanged(su, << >>)
    ELSE IF getVoiceChannelId = NoChannel THEN Unchanged(su, << >>)
    ELSE LET su1 == triggerSuppressionWindow(su)
             tick == updateVoiceCountsAndMaybeSuppress(su1)
         IN  [tick EXCEPT !.calls = << TriggerCall("STREAMING_UPDATE", "handler") >> \o @,
                          !.before = su1]

\* the host's own dispatch: the payload reaches the plugin's handler for its type
originalDispatch(payload, su) ==
    LET r == IF payload.type = "VOICE_STATE_UPDATES"
             THEN fluxVoiceStateUpdates(payload.voiceStates, su)
             ELSE IF payload.type = "STREAMING_UPDATE" THEN fluxStreamingUpdate(su)
             ELSE Unchanged(su, << >>)
    IN  [r EXCEPT !.dispatched = Append(@, payload)]

\* a plausible slip: the hook has no allow-list of types
hookFires_anyType(payload) ==
    /\ isActive
    /\ isSelfDeafened
    /\ getVoiceChannelId # NoChannel

\* the wrapper patchFluxDispatch installs, then the original it calls
hookFires(payload) ==
    /\ isActive
    /\ isSelfDeafened
    /\ getVoiceChannelId # NoChannel
    /\ payload.type \in WindowEventTypes

\* storeThrows: SelectedChannelStore.getVoiceChannelId throws while the hook
\* inspects the payload.  isSelfDeafened catches it and answers false when it
\* had to fall back on the voice state; the hook's own read, made once the
\* engine is active and the media engine said self-deafened, throws.
hookThrows(f, storeThrows) ==
    /\ IsWrapper(f)
    /\ isActive
    /\ mediaEngineOk /\ deaf
    /\ storeThrows

\* the dispatch value f called with payload: the wrapper's try block, whose
\* exception the catch swallows, then the original
callDispatch(f, payload, su, storeThrows) ==
    IF IsWrapper(f) /\ ~storeThrows /\ hookFires(payload)
    THEN LET r == originalDispatch(payload, triggerSuppressionWindow(su))
         IN  [r EXCEPT !.calls = << TriggerCall(payload.type, "hook") >> \o @]
    ELSE originalDispatch(payload, su)

\* FluxDispatcher.dispatch(payload), called by the host; storeThrows says
\* whether the host's store throws when the hook reads the voice channel
Dispatch(i, storeThrows) ==
    /\ LET r == callDispatch(fns["dispatch"], Payloads[i], suppressUntil, storeThrows)
       IN  /\ suppressUntil' = r.suppressUntil
           /\ lastVoiceChannelId' = r.lastVoiceChannelId
           /\ lastMemberCount' = r.lastMemberCount
           /\ lastStreamCount' = r.lastStreamCount
           /\ last' = [Last("dispatch", i,
                            [Outcome(FALSE, Len(r.dispatched)) EXCEPT !.args = r.dispatched],
                            r.calls, TickSeen(r))
                          EXCEPT !.threw = hookThrows(fns["dispatch"], storeThrows)]
    /\ UNCHANGED << hostVars, isActive, patchVars, strVars, scriptVars >>

(* Playback calls made by the host *)

\* module[key](soundArg, optionsArg, ...rest) called by the host on thisArg
PlaySoundCall(key, i, thisArg, rest, hostResult) ==
    /\ SoundModule \in loaded
    /\ last' = [Last(key, i,
                     callSoundFunction(fns[key], thisArg, CallArgs[i][1], CallArgs[i][2],
                                       rest, hostResult),
                     << >>, NoTick)
                    EXCEPT !.thisArg = thisArg, !.rest = rest, !.hostResult = hostResult]
    /\ UNCHANGED << hostVars, engineVars, patchVars, strVars, scriptVars >>

IsSoundDisabledCall(i) ==
    /\ NotificationSettingsStore \in loaded
    /\ last' = Last("isSoundDisabled", i,
                    callIsSoundDisabled(fns["isSoundDisabled"], SoundNames[i]), << >>, NoTick)
    /\ UNCHANGED << hostVars, engineVars, patchVars, strVars, scriptVars >>

HtmlMediaPlayCall(i, idnaAccepts) ==
    /\ last' = [Last("play", i, callHtmlMediaPlay(fns["play"], MediaSrcs[i], idnaAccepts),
                      << >>, NoTick)
                    EXCEPT !.soundId = MediaSoundIds[i][idnaAccepts]]
    /\ UNCHANGED << hostVars, engineVars, patchVars, strVars, scriptVars >>

AudioBufferStartCall ==
    /\ last' = Last("AudioBufferSourceNode.start", 0, callAudioBufferStart(fns["start"]),
                    << >>, NoTick)
    /\ UNCHANGED << hostVars, engineVars, patchVars, strVars, scriptVars >>

\* every operation of the program
Next ==
    \/ Advance
    \/ ToggleDeaf
    \/ \E c \in Channels, v \in VoiceStates : SelectChannel(c, v[1], v[2])
    \/ LeaveChannel
    \/ \E v \in VoiceStates : VoiceStatesChange(v[1], v[2])
    \/ Start
    \/ Stop
    \/ \E module \in Targets : ModuleResolved(module)
    \/ \E i \in DOMAIN Payloads, storeThrows \in BOOLEAN : Dispatch(i, storeThrows)
    \/ \E key \in ModuleFunctions, i \in DOMAIN CallArgs, thisArg \in Receivers,
          rest \in RestArgs, hostResult \in HostResults :
           PlaySoundCall(key, i, thisArg, rest, hostResult)
    \/ \E i \in DOMAIN SoundNames : IsSoundDisabledCall(i)
    \/ \E i \in DOMAIN MediaSrcs, idnaAccepts \in BOOLEAN : HtmlMediaPlayCall(i, idnaAccepts)
    \/ AudioBufferStartCall

Spec == Init /\ [][Next]_vars

----------------------------------------------------------------------------
(* The program's state is a product of parts that the operations read      *)
(* apart: the decisions read the host state, the window and the installed  *)
(* wrappers; the tracker reads the host state and the snapshot; the patch  *)
(* lifecycle reads the patch records.  Each part is explored by the        *)
(* operations that change what it reads, with the rest of the host held    *)
(* to one behaviour.                                                       *)

\* Decisions.  The modules are resolved before the plugin starts, a channel
\* has one member, the window is opened by a hook-only event, and the host
\* calls two of the sound functions, on the module and with two arguments.
OneMember == << 1, 0 >>
CalledFunctions == { "playSound", "playSoundPack" }
StreamCreate == CHOOSE i \in DOMAIN Payloads : Payloads[i].type = "STREAM_CREATE"

InitCalls ==
    /\ InitProgram
    /\ mediaEngineOk \in BOOLEAN
    /\ loaded = Targets
    /\ pin = << >>
    /\ pout = NoString
    /\ sync = NoScript

NextCalls ==
    \/ Advance
    \/ ToggleDeaf
    \/ \E c \in Channels : SelectChannel(c, OneMember[1], OneMember[2])
    \/ LeaveChannel
    \/ Start
    \/ Stop
    \/ Dispatch(StreamCreate, FALSE)
    \/ \E key \in CalledFunctions, i \in DOMAIN CallArgs :
           PlaySoundCall(key, i, ThisModule, << >>, Undefined)
    \/ \E i \in DOMAIN SoundNames : IsSoundDisabledCall(i)
    \/ \E i \in DOMAIN MediaSrcs, idnaAccepts \in BOOLEAN : HtmlMediaPlayCall(i, idnaAccepts)
    \/ AudioBufferStartCall

SpecCalls == InitCalls /\ [][NextCalls]_vars

\* Wrappers of the sound functions.  The modules are resolved before the
\* plugin starts, the media engine answers, a channel has one member and the
\* clock stands; the host calls each of the five functions, on either
\* receiver, with and without a third argument, and its own function returns
\* either result.
InitWrap ==
    /\ InitProgram
    /\ mediaEngineOk = TRUE
    /\ loaded = Targets
    /\ pin = << >>
    /\ pout = NoString
    /\ sync = NoScript

NextWrap ==
    \/ ToggleDeaf
    \/ \E c \in Channels : SelectChannel(c, OneMember[1], OneMember[2])
    \/ LeaveChannel
    \/ Start
    \/ Stop
    \/ \E key \in ModuleFunctions, i \in DOMAIN CallArgs, thisArg \in Receivers,
          rest \in RestArgs, hostResult \in HostResults :
           PlaySoundCall(key, i, thisArg, rest, hostResult)

SpecWrap == InitWrap /\ [][NextWrap]_vars

\* Tracker and window.  The modules are resolved before the plugin starts,
\* the media engine answers and the stores do not throw.
InitTrack ==
    /\ InitProgram
    /\ mediaEngineOk = TRUE
    /\ loaded = Targets
    /\ pin = << >>
    /\ pout = NoString
    /\ sync = NoScript

NextTrack ==
    \/ Advance
    \/ ToggleDeaf
    \/ \E c \in Channels, v \in VoiceStates : SelectChannel(c, v[1], v[2])
    \/ LeaveChannel
    \/ \E v \in VoiceStates : VoiceStatesChange(v[1], v[2])
    \/ Start
    \/ Stop
    \/ \E i \in DOMAIN Payloads : Dispatch(i, FALSE)
    \/ AudioBufferStartCall

SpecTrack == InitTrack /\ [][NextTrack]_vars

\* The dispatch hook.  The modules are resolved before the plugin starts; the
\* media engine answers or not, and the channel store throws or not while
\* the hook inspects a payload.
InitHook ==
    /\ InitProgram
    /\ mediaEngineOk \in BOOLEAN
    /\ loaded = Targets
    /\ pin = << >>
    /\ pout = NoString
    /\ sync = NoScript

NextHook ==
    \/ Advance
    \/ ToggleDeaf
    \/ \E c \in Channels, v \in VoiceStates : SelectChannel(c, v[1], v[2])
    \/ LeaveChannel
    \/ \E v \in VoiceStates : VoiceStatesChange(v[1], v[2])
    \/ Start
    \/ Stop
    \/ \E i \in DOMAIN Payloads, storeThrows \in BOOLEAN : Dispatch(i, storeThrows)

SpecHook == InitHook /\ [][NextHook]_vars

\* Patch lifecycle.  The clock stands, a channel has one member, and the
\* host calls isSoundDisabled for a voice SFX.
InitPatch ==
    /\ InitProgram
    /\ mediaEngineOk = TRUE
    /\ loaded \in SUBSET Targets
    /\ pin = << >>
    /\ pout = NoString
    /\ sync = NoScript

NextPatch ==
    \/ ToggleDeaf
    \/ \E c \in Channels : SelectChannel(c, OneMember[1], OneMember[2])
    \/ Start
    \/ Stop
    \/ \E module \in Targets : ModuleResolved(module)
    \/ IsSoundDisabledCall(2)

SpecPatch == InitPatch /\ [][NextPatch]_vars

----------------------------------------------------------------------------
(* The string functions, applied to bounded inputs *)

StrAlphabet == { "a", "B", "1", "_", "-", " " }

\* every string over StrAlphabet of length at most MaxLen
ExhaustiveStrings == UNION { [1..k -> StrAlphabet] : k \in 0..MaxLen }

\* the voice-lifecycle family names: the literals of the nine patterns
FamilyNames == UNION { VOICE_SFX_PATTERNS[p] : p \in DOMAIN VOICE_SFX_PATTERNS }

Separators == { << "_" >>, << "-" >>, << " " >>, << ".", " " >> }
Prefixes == { << >>, << "m", "y", "-" >> }
Suffixes == { << >>, << "_", "x", "y", "z", "1", "2", "3" >> }
LetterCases == { "lower", "upper", "title" }

\* name with each "_" written as sep
RECURSIVE withSeparator(_, _)
withSeparator(name, sep) ==
    IF name = << >> THEN << >>
    ELSE IF Head(name) = "_" THEN sep \o withSeparator(Tail(name), sep)
    ELSE << Head(name) >> \o withSeparator(Tail(name), sep)

inLetterCase(s, case) ==
    IF case = "upper" THEN toUpperCase(s)
    ELSE IF case = "title" /\ s # << >> THEN << toUpperCaseChar(Head(s)) >> \o Tail(s)
    ELSE s

\* ids that contain a family name, in any letter case, with any separator
FamilyIds ==
    { pre \o inLetterCase(withSeparator(name, sep), case) \o suf :
          pre \in Prefixes, name \in FamilyNames, sep \in Separators,
          case \in LetterCases, suf \in Suffixes }

\* ids that contain no family name
OtherIds == {
    <<"m","e","s","s","a","g","e","_","n","o","t","i","f","y">>,
    <<"p","i","n","g">>,
    <<"m","e","s","s","a","g","e","_","n","o","t","i","f","y","_","d","m">>,
    <<"c","a","l","l","_","r","i","n","g","i","n","g">>,
    <<"m","u","t","e">>,
    <<"u","n","d","e","a","f","e","n">>,
    <<"u","s","e","r","j","o","i","n">>,
    <<"j","o","i","n","_","u","s","e","r">>,
    <<"s","t","r","e","a","m">>,
    << >>
}

\* ids with code units above U+007F: the Kelvin sign and the dotted capital
\* I, whose lower case is ASCII, and letters whose lower case is not
UnicodeIds == {
    <<"i","n","v","i","t","e","d","_","t","o","_","s","p","e","a","U+212A">>,
    <<"g","o","_","l","U+0130","v","e">>,
    <<"U+0130">>,
    <<"U","S","E","R","U+00C9","J","O","I","N">>,
    <<"U+0391","U+03A3","_","j","o","i","n">>
}

StringInputs == ExhaustiveStrings \cup FamilyIds \cup OtherIds \cup UnicodeIds

InitStr ==
    /\ InitProgram
    /\ mediaEngineOk = TRUE
    /\ loaded = Targets
    /\ pin \in StringInputs
    /\ pout = NoString
    /\ sync = NoScript

Normalize ==
    /\ pout' = [op |-> "normalizeSoundId",
                once |-> normalizeSoundId(pin),
                twice |-> normalizeSoundId(normalizeSoundId(pin))]
    /\ UNCHANGED << hostVars, engineVars, patchVars, last, pin, scriptVars >>

Classify ==
    /\ pout' = [op |-> "isVoiceChannelSfxSoundId",
                normalized |-> normalizeSoundId(pin),
                result |-> isVoiceChannelSfxSoundId(pin)]
    /\ UNCHANGED << hostVars, engineVars, patchVars, last, pin, scriptVars >>

NextStr == Normalize \/ Classify

SpecStr == InitStr /\ [][NextStr]_vars

----------------------------------------------------------------------------
(* C9, C10: the classifier and the normalisation (SpecStr) *)

\* the nine regular expressions as they are written in the source: a literal
\* and, for six of them, a group of alternatives after it
PatternSources == <<
    [prefix |-> <<"u","s","e","r","_">>,
     alts |-> { <<"j","o","i","n">>, <<"l","e","a","v","e">>, <<"m","o","v","e">> }],
    [prefix |-> <<"v","o","i","c","e","_">>,
     alts |-> { <<"j","o","i","n">>, <<"l","e","a","v","e">>, <<"m","o","v","e">> }],
    [prefix |-> <<"s","t","r","e","a","m","_">>,
     alts |-> { <<"s","t","a","r","t">>, <<"s","t","o","p">>, <<"e","n","d">>, <<"s","t","a","r","t","e","d">>, <<"s","t","o","p","p","e","d">> }],
    [prefix |-> <<"g","o","_","l","i","v","e">>,
     alts |-> { << >> }],
    [prefix |-> <<"s","t","a","g","e","_">>,
     alts |-> { <<"s","t","a","r","t">>, <<"e","n","d">>, <<"j","o","i","n">>, <<"l","e","a","v","e">> }],
    [prefix |-> <<"v","i","e","w","e","r","_">>,
     alts |-> { <<"j","o","i","n">>, <<"l","e","a","v","e">> }],
    [prefix |-> <<"v","o","i","c","e","_","d","i","s","c","o","n","n","e","c","t","e","d">>,
     alts |-> { << >> }],
    [prefix |-> <<"i","n","v","i","t","e","d","_","t","o","_","s","p","e","a","k">>,
     alts |-> { << >> }],
    [prefix |-> <<"a","c","t","i","v","i","t","y","_">>,
     alts |-> { <<"s","t","a","r","t">>, <<"e","n","d">>, <<"u","s","e","r","_","j","o","i","n">>, <<"u","s","e","r","_","l","e","a","v","e">> }]
>>

\* the word is in s at position i, letter case apart
WordAt(s, i, word) ==
    /\ i + Len(word) - 1 <= Len(s)
    /\ \A k \in DOMAIN word : ignoreCaseChar(s[i + k - 1]) = word[k]

\* the regular expression re finds a match in s: at some position the
\* literal, and right after it one of the alternatives
RegExpTest(re, s) ==
    \E i \in 1..(Len(s) + 1), alt \in re.alts :
        WordAt(s, i, re.prefix) /\ WordAt(s, i + Len(re.prefix), alt)

\* C9: the classifier is true for every id of the test set that contains a
\* family name in any letter case and with any separator, false for every id
\* of the set that contains none, and on every input it is true exactly when
\* one of the nine regular expressions finds a match in the raw id or in its
\* normalized form.
C9_ClassifierOnTestSet ==
    pout.op = "isVoiceChannelSfxSoundId" =>
        /\ pin \in FamilyIds => pout.result
        /\ pin \in OtherIds => ~pout.result
        /\ pout.result =
              \E p \in DOMAIN PatternSources :
                  \/ RegExpTest(PatternSources[p], pin)
                  \/ RegExpTest(PatternSources[p], pout.normalized)

\* "stage-leave" is classified, which only its normalized form matches
C9_Witness ==
    /\ pout.op = "isVoiceChannelSfxSoundId"
    /\ pin = <<"s","t","a","g","e","-","l","e","a","v","e">>
    /\ pin \in FamilyIds
    /\ pout.result

\* C10: normalizeSoundId(normalizeSoundId(s)) = normalizeSoundId(s) for
\* every input string s.
C10_NormalizeIdempotent ==
    pout.op = "normalizeSoundId" => pout.twice = pout.once

\* an input with an upper-case letter between separator runs is normalized
C10_Witness ==
    /\ pout.op = "normalizeSoundId"
    /\ pin = << "-", "B", " " >>
    /\ pout.once = << "b" >>
    /\ pout.twice = << "b" >>

----------------------------------------------------------------------------
(* C1 - C4: the decisions (SpecCalls) *)

\* the user is self-deafened in a voice channel
DeafenedInVoice == deaf /\ vc # NoChannel

\* the last operation was a call of a sound-module function
SoundCall == last.op \in ModuleFunctions
SoundArg == CallArgs[last.arg][1]
OptionsArg == CallArgs[last.arg][2]

\* the property names that can hold a channel id, in the order they are probed
ChannelKeys == << "channelId", "voiceChannelId", "currentChannelId", "targetChannelId" >>

\* the argument carries the channel id c: the first of its channel
\* properties that is a string is c
CarriesChannel(arg, c) == getStringProp(arg, ChannelKeys) = JSString(c)

\* getChannelId finds the channel id c in the argument
ChannelIdIs(arg, c) == getChannelId(arg) = JSString(c)

\* the sound id of a call, when it has one, is a voice SFX
IsVoiceSfxCall(soundArg, optionsArg) ==
    /\ IsTruthyString(getSoundId(soundArg, optionsArg))
    /\ isVoiceChannelSfxSoundId(getSoundId(soundArg, optionsArg).v)

\* C1: while the engine is active and the user is self-deafened in a voice
\* channel, no installed hook suppresses the playback of a sound that is not
\* a voice-channel SFX, whether the window is open or not.  (A call that is
\* scoped to the user's voice channel by its channel id counts as a
\* voice-channel sound.)
C1_OtherSoundsNeverSuppressed ==
    (isActive /\ DeafenedInVoice) =>
        /\ (SoundCall /\ ~IsVoiceSfxCall(SoundArg, OptionsArg)
               /\ ~ChannelIdIs(SoundArg, vc) /\ ~ChannelIdIs(OptionsArg, vc))
               => ~last.suppressed
        /\ (last.op = "isSoundDisabled" /\ ~isVoiceChannelSfxSoundId(SoundNames[last.arg]))
               => ~last.suppressed
        /\ (last.op = "play" /\ ~isVoiceChannelSfxSoundId(last.soundId))
               => ~last.suppressed

\* C2: shouldSuppress is false for every argument pair whenever the user is
\* not self-deafened or is in no voice channel, whatever the window; a call
\* made through the wrapper in such a state reaches the original.
C2_NotDeafenedNeverSuppressed ==
    ~DeafenedInVoice =>
        /\ \A i \in DOMAIN CallArgs : ~shouldSuppress(CallArgs[i][1], CallArgs[i][2])
        /\ SoundCall => (~last.suppressed /\ last.origCalls = 1)

\* a wrapped call that carries the channel id and a voice SFX id, made while
\* the window is open and the user is not deafened, reached the original
C2_Witness ==
    /\ last.op = "playSound" /\ last.arg = 2
    /\ IsWrapper(fns["playSound"])
    /\ isActive /\ ~deaf /\ vc = ChannelC
    /\ now < suppressUntil
    /\ ~last.suppressed /\ last.origCalls = 1

\* C3: when the user is self-deafened in channel C, shouldSuppress is true
\* for every argument pair of which one carries the channel id C (the first
\* string-typed one of its four channel properties is C), whatever its sound
\* id; a call made through the wrapper is then suppressed.
C3_ChannelMatchSuppresses ==
    DeafenedInVoice =>
        /\ \A i \in DOMAIN CallArgs :
               (CarriesChannel(CallArgs[i][1], vc) \/ CarriesChannel(CallArgs[i][2], vc))
                   => shouldSuppress(CallArgs[i][1], CallArgs[i][2])
        /\ (SoundCall /\ IsWrapper(fns[last.op])
               /\ (CarriesChannel(SoundArg, vc) \/ CarriesChannel(OptionsArg, vc)))
               => (last.suppressed /\ last.origCalls = 0)

\* C4: when the user is self-deafened in a voice channel, shouldSuppress is
\* false for every argument pair of which neither carries the current channel
\* id and whose sound id is missing or is not a voice SFX.
C4_FailOpen ==
    DeafenedInVoice =>
        /\ \A i \in DOMAIN CallArgs :
               (/\ ~ChannelIdIs(CallArgs[i][1], vc)
                /\ ~ChannelIdIs(CallArgs[i][2], vc)
                /\ ~IsVoiceSfxCall(CallArgs[i][1], CallArgs[i][2]))
                   => ~shouldSuppress(CallArgs[i][1], CallArgs[i][2])
        /\ (SoundCall /\ ~ChannelIdIs(SoundArg, vc) /\ ~ChannelIdIs(OptionsArg, vc)
               /\ ~IsVoiceSfxCall(SoundArg, OptionsArg))
               => (~last.suppressed /\ last.origCalls = 1)

\* playSound("message_notify_dm", {}) reached the original in channel C
C4_Witness ==
    /\ last.op = "playSound" /\ last.arg = 1
    /\ IsWrapper(fns["playSound"])
    /\ isActive /\ deaf /\ vc = ChannelC
    /\ ~last.suppressed /\ last.origCalls = 1

----------------------------------------------------------------------------
(* C5: the patch lifecycle (SpecPatch) *)

\* C5: after stop() every host function equals its pre-activation reference
\* and patchedFunctions is empty, whatever start(), stop() and module
\* resolutions came before.
C5_StopRestoresEverything ==
    last.op = "stop" =>
        /\ \A k \in FnSlots : fns[k] = HostOriginal
        /\ patchedFunctions = << >>

----------------------------------------------------------------------------
(* C6 - C8: the window and the tracker (SpecTrack) *)

\* the calls of triggerSuppressionWindow the tracker made in the last operation
TickCalls == SelectSeq(last.calls, LAMBDA c : c.by = "tick")

\* C6: no step decreases suppressUntil; stop() in particular leaves it.
C6_WindowNeverDecreases == [][suppressUntil' >= suppressUntil]_vars

\* stop() ran and the window it left is still open
C6_Witness ==
    /\ last.op = "stop"
    /\ ~isActive
    /\ now < suppressUntil

\* C7: a tick that finds the channel of the snapshot and both counts changed
\* calls triggerSuppressionWindow exactly once, with "memberCountChanged".
C7_MemberCountPrecedence ==
    (last.tick.ran /\ last.tick.known /\ ~last.tick.chanDiff
        /\ last.tick.memDiff /\ last.tick.strDiff)
        => TickCalls = << TriggerCall("memberCountChanged", "tick") >>

\* such a tick ran in start(), on the snapshot of the previous activation,
\* while the user was deafened, and opened the window
C7_Witness ==
    /\ last.op = "start"
    /\ deaf
    /\ last.tick.ran /\ last.tick.known /\ ~last.tick.chanDiff
    /\ last.tick.memDiff /\ last.tick.strDiff
    /\ last.tick.moved
    /\ TickCalls = << TriggerCall("memberCountChanged", "tick") >>

\* C8: a tick that finds another channel than the snapshot's (the first tick
\* included) does not call triggerSuppressionWindow and leaves suppressUntil,
\* even when the counts differ too.
C8_ChannelSwitchOpensNoWindow ==
    (last.tick.ran /\ last.tick.chanDiff) => (TickCalls = << >> /\ ~last.tick.moved)

\* the user, deafened, switched channel and the counts differ as well
C8_Witness ==
    /\ last.op = "dispatch"
    /\ last.tick.ran /\ last.tick.chanDiff /\ last.tick.known
    /\ last.tick.memDiff /\ last.tick.strDiff
    /\ deaf /\ vc = ChannelD /\ lastVoiceChannelId = ChannelD
    /\ TickCalls = << >>

----------------------------------------------------------------------------
(* C11: the window controller (SpecTrack) *)

\* the payload reaches no flux handler of the plugin: only the dispatch hook sees it
HookOnly(payload) == payload.type \notin { "VOICE_STATE_UPDATES", "STREAMING_UPDATE" }

\* the step is an operation (start() or a dispatch) in which
\* triggerSuppressionWindow was called
TriggerCalled == last'.op \in { "start", "dispatch" } /\ last'.calls # << >>

\* C11: an operation that calls triggerSuppressionWindow leaves suppressUntil
\* when the user is not self-deafened or in no voice channel, and otherwise
\* sets it to exactly max(suppressUntil, now + 600); when the call is all the
\* operation does (a dispatch seen by the hook only), no other engine
\* variable changes.
C11_TriggerEffect ==
    [][TriggerCalled =>
          /\ suppressUntil' = IF deaf /\ vc # NoChannel
                              THEN Max(suppressUntil, now + SUPPRESS_WINDOW_MS)
                              ELSE suppressUntil
          /\ (last'.op = "dispatch" /\ HookOnly(Payloads[last'.arg]))
                 => UNCHANGED << isActive, lastVoiceChannelId, lastMemberCount,
                                 lastStreamCount, patchVars >>]_vars

\* start() called triggerSuppressionWindow for a changed member count while
\* the user was in a channel and not self-deafened
C11_Witness ==
    /\ last.op = "start"
    /\ last.calls # << >>
    /\ ~deaf
    /\ vc # NoChannel

----------------------------------------------------------------------------
(* C12: raw playback (SpecCalls) *)

RawPlaybackCall == last.op \in { "play", "AudioBufferSourceNode.start" }

\* C12: a raw playback call is suppressed exactly when the engine is active,
\* the window is open and the user is self-deafened in a voice channel,
\* whatever is played.
C12_RawPlaybackWindowOnly ==
    RawPlaybackCall => (last.suppressed <=> shouldSuppressAnySfxNow)

----------------------------------------------------------------------------
(* C13: the sound-function wrappers (SpecWrap) *)

\* C13: a call of a wrapped sound function (each of the five names) does not
\* reach the original when shouldSuppress holds for its first two arguments;
\* otherwise it reaches the original exactly once, with the receiver and all
\* the arguments of the call, and the caller gets the original's result.
C13_WrapperDelegates ==
    (SoundCall /\ IsWrapper(fns[last.op])) =>
        IF shouldSuppress(SoundArg, OptionsArg)
        THEN last.suppressed /\ last.origCalls = 0 /\ last.forwarded = << >>
        ELSE /\ ~last.suppressed
             /\ last.origCalls = 1
             /\ last.forwarded = << SoundArg, OptionsArg >> \o last.rest
             /\ last.receiver = last.thisArg
             /\ last.returned = last.hostResult

\* playSoundWithVolumeAndPan was called through its wrapper, as a bare
\* function and with a third argument, for a message sound while the user
\* was self-deafened in a channel: the original got the undefined receiver
\* and the three arguments, and its result object went back to the caller
C13_Witness ==
    /\ last.op = "playSoundWithVolumeAndPan"
    /\ IsWrapper(fns[last.op])
    /\ DeafenedInVoice
    /\ ~shouldSuppress(SoundArg, OptionsArg)
    /\ last.thisArg = ThisUndefined
    /\ last.rest # << >>
    /\ last.hostResult # Undefined
    /\ last.origCalls = 1
    /\ last.forwarded = << SoundArg, OptionsArg >> \o last.rest
    /\ last.receiver = ThisUndefined
    /\ last.returned = last.hostResult

----------------------------------------------------------------------------
(* C14: the dispatch hook (SpecHook) *)

\* the calls of triggerSuppressionWindow the dispatch hook made in the last operation
HookCalls(l) == SelectSeq(l.calls, LAMBDA c : c.by = "hook")

\* the hook's condition, in the words of the claim
HookMayExtend(payload) ==
    /\ isActive
    /\ deaf
    /\ vc # NoChannel
    /\ payload.type \in { "VOICE_STATE_UPDATES", "STREAMING_UPDATE", "STREAM_CREATE",
                          "STREAM_START", "STREAM_STOP", "STREAM_DELETE",
                          "RTC_CONNECTION_CLIENT_CONNECT",
                          "RTC_CONNECTION_CLIENT_DISCONNECT" }

\* C14: every dispatched payload reaches the host's own dispatch exactly once
\* and unchanged, also when the hook's inspection threw; the hook calls
\* triggerSuppressionWindow, and a payload no flux handler of the plugin
\* receives moves suppressUntil, only when the engine is active, the user is
\* self-deafened in a voice channel and the type is one of the eight listed.
C14_DispatchForwards ==
    [][last'.op = "dispatch" =>
          LET payload == Payloads[last'.arg] IN
          /\ last'.origCalls = 1
          /\ last'.forwarded = << payload >>
          /\ HookCalls(last') # << >> => HookMayExtend(payload)
          /\ (HookOnly(payload) /\ suppressUntil' # suppressUntil)
                 => HookMayExtend(payload)]_vars

\* the hook's inspection threw on a payload of a listed type while the engine
\* was active and the user self-deafened in a channel: the hook opened no
\* window and the payload went on to the host's dispatch
C14_Witness ==
    /\ last.op = "dispatch"
    /\ last.threw
    /\ HookMayExtend(Payloads[last.arg])
    /\ HookOnly(Payloads[last.arg])
    /\ HookCalls(last) = << >>
    /\ suppressUntil = 0
    /\ last.origCalls = 1
    /\ last.forwarded = << Payloads[last.arg] >>

----------------------------------------------------------------------------
(* C15: a channel switch and the window (SpecTrack) *)

\* the step processes a VOICE_STATE_UPDATES event end to end while the engine
\* is active and the user, self-deafened, has switched from the snapshot's
\* channel to another one, whose voice states the host knows
SwitchEventProcessed ==
    /\ last'.op = "dispatch"
    /\ Payloads[last'.arg].type = "VOICE_STATE_UPDATES"
    /\ isActive
    /\ deaf
    /\ vc # NoChannel
    /\ lastVoiceChannelId # NoChannel
    /\ lastVoiceChannelId # vc
    /\ last'.tick.ran /\ last'.tick.known /\ last'.tick.chanDiff

\* C15: a VOICE_STATE_UPDATES event processed (dispatch hook, flux handler,
\* tick) while the user's channel differs from the snapshot's leaves
\* suppressUntil unchanged.
C15_SwitchEventLeavesWindow ==
    [][SwitchEventProcessed => suppressUntil' = suppressUntil]_vars

----------------------------------------------------------------------------
(* C16: the snapshot after a tick (SpecTrack) *)

\* C16, as claimed: after a tick the snapshot is the host state the tick
\* read: (absent, 0, 0) in no channel, otherwise the current channel with its
\* member and stream counts, whatever the host returned for the channel's
\* voice states.
C16_SnapshotIsHostState ==
    last.tick.ran =>
        IF vc = NoChannel
        THEN /\ lastVoiceChannelId = NoChannel
             /\ lastMemberCount = 0
             /\ lastStreamCount = 0
        ELSE /\ lastVoiceChannelId = vc
             /\ last.tick.known => (lastMemberCount = members /\ lastStreamCount = streams)

\* C16, amended: a tick leaves the snapshot (absent, 0, 0) in no channel; when
\* the host returns the voice states of the current channel it leaves the
\* current channel with its member and stream counts, whichever branch fired;
\* when the host returns no voice states for the channel it leaves the
\* snapshot as it was.
C16_SnapshotAfterTick ==
    [][last'.tick.ran =>
          IF vc = NoChannel
          THEN /\ lastVoiceChannelId' = NoChannel
               /\ lastMemberCount' = 0
               /\ lastStreamCount' = 0
          ELSE IF members # Absent
          THEN /\ lastVoiceChannelId' = vc
               /\ lastMemberCount' = members
               /\ lastStreamCount' = streams
          ELSE UNCHANGED << lastVoiceChannelId, lastMemberCount, lastStreamCount >>]_vars

\* a tick ran in a channel whose voice states the host did not return, and
\* the snapshot still names the channel the user left
C16_Witness ==
    /\ last.tick.ran
    /\ ~last.tick.known
    /\ vc # NoChannel
    /\ lastVoiceChannelId # NoChannel
    /\ lastVoiceChannelId # vc

----------------------------------------------------------------------------
(* C17: the snapshot across stop() and start() (SpecTrack) *)

\* C17: stop() leaves the snapshot (absent, 0, 0), and the tick of start()
\* does not move the window.
C17_StopResetsSnapshot ==
    /\ last.op = "stop" => /\ lastVoiceChannelId = NoChannel
                           /\ lastMemberCount = 0
                           /\ lastStreamCount = 0
    /\ last.op = "start" => ~last.tick.moved

----------------------------------------------------------------------------
(* C18: the tick on every relevant event (SpecTrack) *)

\* the last operation delivered a VOICE_STATE_UPDATES or STREAMING_UPDATE
\* event to the plugin while it was active and the user was in a channel
\* whose voice states the host knows
RelevantEventDelivered ==
    /\ last.op = "dispatch"
    /\ ~HookOnly(Payloads[last.arg])
    /\ isActive
    /\ vc # NoChannel
    /\ members # Absent

\* C18: every VOICE_STATE_UPDATES or STREAMING_UPDATE event delivered to the
\* active plugin runs the tick, so that the snapshot holds the counts of the
\* latest relevant event and a later tick compares against them.
C18_EveryRelevantEventTicks ==
    RelevantEventDelivered =>
        /\ last.tick.ran
        /\ lastVoiceChannelId = vc
        /\ lastMemberCount = members
        /\ lastStreamCount = streams

----------------------------------------------------------------------------
(* C19: getChannelId (SpecCalls) *)

\* C19: for the options of every call that shouldSuppress examines (a wrapped
\* function called while the user is self-deafened in a channel),
\* getChannelId returns the value of the first of the four properties that
\* is a string, and nothing only when none of them is a string.
C19_FirstStringChannelId ==
    (SoundCall /\ IsWrapper(fns[last.op]) /\ DeafenedInVoice)
        => getChannelId(OptionsArg) = getStringProp(OptionsArg, ChannelKeys)

----------------------------------------------------------------------------
(* C20: the patch records (SpecPatch) *)

\* C20: no two records of patchedFunctions name the same function of the
\* same target, and no record's saved original is a wrapper of the engine.
C20_PatchRecordsDistinct ==
    /\ \A i, j \in DOMAIN patchedFunctions :
           (/\ patchedFunctions[i].target = patchedFunctions[j].target
            /\ patchedFunctions[i].key = patchedFunctions[j].key) => i = j
    /\ \A i \in DOMAIN patchedFunctions : ~IsWrapper(patchedFunctions[i].original)

----------------------------------------------------------------------------
(* C21: nothing is patched while the engine is inactive (SpecPatch) *)

\* C21: while the engine is inactive patchedFunctions is empty and no host
\* function is replaced by a wrapper of the engine, also when a module
\* resolves after stop().
C21_InactiveMeansUnpatched ==
    ~isActive => /\ patchedFunctions = << >>
                 /\ \A k \in FnSlots : ~IsWrapper(fns[k])

----------------------------------------------------------------------------
(* C22: suppression needs the engine active and the user deafened in voice *)
(* (SpecCalls)                                                             *)

\* the last operation was a call of a function the engine wraps
PlaybackCall ==
    last.op \in ModuleFunctions \cup { "isSoundDisabled", "play", "AudioBufferSourceNode.start" }

\* C22: a call of a wrapped function is suppressed only while the engine is
\* active and the user is self-deafened in a voice channel, whatever the
\* window is.
C22_SuppressionNeedsDeafenedInVoice ==
    (PlaybackCall /\ last.suppressed) => (isActive /\ DeafenedInVoice)

\* the user un-deafened inside an open window and the raw playback that
\* followed reached the host through the engine's wrapper
C22_Witness ==
    /\ last.op \in { "play", "AudioBufferSourceNode.start" }
    /\ isActive
    /\ IsWrapper(fns["play"]) /\ IsWrapper(fns["start"])
    /\ now < suppressUntil
    /\ ~deaf
    /\ vc # NoChannel
    /\ ~last.suppressed
    /\ last.origCalls = 1

----------------------------------------------------------------------------
(* C23: the length of the window (SpecTrack) *)

\* C23: the window never reaches more than 600 ms past the clock, so it is
\* over 600 ms after the latest trigger.
C23_WindowAtMost600 == suppressUntil <= now + SUPPRESS_WINDOW_MS

\* a window was opened and, no trigger having followed for 600 ms, a raw
\* playback of the user, still self-deafened in the channel, was let through
C23_Witness ==
    /\ last.op = "AudioBufferSourceNode.start"
    /\ IsWrapper(fns["start"])
    /\ isActive
    /\ DeafenedInVoice
    /\ suppressUntil > 0
    /\ now >= suppressUntil
    /\ ~last.suppressed

----------------------------------------------------------------------------
(* scripts/autoSync.mjs: the git auto-sync run before a local build *)

\* the git commands of the script, by their arguments
IS_INSIDE_WORK_TREE == "rev-parse --is-inside-work-tree"
STATUS_PORCELAIN == "status --porcelain"
ABBREV_REF_HEAD == "rev-parse --abbrev-ref HEAD"
GIT_PATH_REBASE_MERGE == "rev-parse --git-path rebase-merge"
GIT_PATH_REBASE_APPLY == "rev-parse --git-path rebase-apply"
PULL_REBASE_AUTOSTASH == "pull --rebase --autostash"
REBASE_ABORT == "rebase --abort"

\* values of an environment variable: unset, set to the empty string, set
EnvValues == { Undefined, JSString(<< >>), JSString(<<"0">>), JSString(<<"1">>) }

\* what `git rev-parse --is-inside-work-tree` does: prints true, prints false
\* (inside the .git directory, in a bare repository, or outside the work tree
\* that GIT_DIR and GIT_WORK_TREE name), or fails (no repository)
WorkTreeAnswers == { "true", "false", "fatal" }

\* trimmed output of `git status --porcelain`: nothing, or one changed file
PorcelainOutputs == { << >>, <<"M"," ","a">> }

Branches == { "main", "dev" }

\* commands that can fail for a reason the modelled state of the repository
\* does not show (a lock, no remote, no work tree for git status to read)
FailingCommands == { STATUS_PORCELAIN, ABBREV_REF_HEAD, GIT_PATH_REBASE_MERGE,
                     GIT_PATH_REBASE_APPLY, PULL_REBASE_AUTOSTASH }

\* execFileSync("git", args) throws: git exits non-zero.  The answer that
\* rev-parse prints is not an exit status: with "false" printed, git status
\* fails in a bare repository and succeeds for a work tree named by
\* GIT_WORK_TREE, so its failure is one of s.throws.
Throws(s, args) ==
    \/ args \in s.throws
    \/ args = IS_INSIDE_WORK_TREE /\ s.workTree = "fatal"

\* runGit(args): the command is run
runGit(s, args) == [s EXCEPT !.git = Append(@, args)]

\* shouldSkip(): the reason to skip, or null
shouldSkip(s) ==
    IF IsTruthyString(s.CI) THEN JSString(<<"C","I","=","t","r","u","e">>)
    ELSE IF Coalesce(s.VENCORD_AUTO_SYNC, JSString(<<"1">>)) = JSString(<<"0">>)
         THEN JSString(<<"V","E","N","C","O","R","D","_","A","U","T","O","_",
                         "S","Y","N","C","=","0">>)
         ELSE JSNull

\* process.exit(0)
processExit0(s) == [s EXCEPT !.pc = "exited", !.exit = << 0 >>]

\* the outer catch: a warning, and the script runs to its end, which is an
\* exit with status 0
outerCatch(s) == [s EXCEPT !.pc = "ended", !.exit = << 0 >>, !.caught = TRUE]

\* tryAbortRebase(): git rebase --abort, its failure swallowed
tryAbortRebase(s) == runGit(s, REBASE_ABORT)

SkipCheck ==
    /\ sync.pc = "shouldSkip"
    /\ sync' = IF IsTruthyString(shouldSkip(sync))
               THEN processExit0(sync)
               ELSE [sync EXCEPT !.pc = "workTree"]
    /\ UNCHANGED << hostVars, engineVars, patchVars, last, strVars >>

WorkTreeCheck ==
    /\ sync.pc = "workTree"
    /\ sync' = LET s == runGit(sync, IS_INSIDE_WORK_TREE)
               IN  IF Throws(s, IS_INSIDE_WORK_TREE)
                   THEN processExit0(s)
                   ELSE [s EXCEPT !.pc = "status"]
    /\ UNCHANGED << hostVars, engineVars, patchVars, last, strVars >>

\* the status check warns about a dirty tree and goes on
StatusCheck_noExit ==
    /\ sync.pc = "status"
    /\ sync' = LET s == runGit(sync, STATUS_PORCELAIN)
               IN  IF Throws(s, STATUS_PORCELAIN) THEN outerCatch(s)
                   ELSE [s EXCEPT !.pc = "branch"]
    /\ UNCHANGED << hostVars, engineVars, patchVars, last, strVars >>

StatusCheck ==
    /\ sync.pc = "status"
    /\ sync' = LET s == runGit(sync, STATUS_PORCELAIN)
               IN  IF Throws(s, STATUS_PORCELAIN) THEN outerCatch(s)
                   ELSE IF Len(s.porcelain) # 0 THEN processExit0(s)
                   ELSE [s EXCEPT !.pc = "branch"]
    /\ UNCHANGED << hostVars, engineVars, patchVars, last, strVars >>

BranchCheck ==
    /\ sync.pc = "branch"
    /\ sync' = LET s == runGit(sync, ABBREV_REF_HEAD)
               IN  IF Throws(s, ABBREV_REF_HEAD) THEN outerCatch(s)
                   ELSE IF s.branch # "main" THEN processExit0(s)
                   ELSE [s EXCEPT !.pc = "rebase"]
    /\ UNCHANGED << hostVars, engineVars, patchVars, last, strVars >>

RebaseCheck ==
    /\ sync.pc = "rebase"
    /\ sync' = LET s1 == runGit(sync, GIT_PATH_REBASE_MERGE)
                   s2 == runGit(s1, GIT_PATH_REBASE_APPLY)
               IN  IF Throws(s1, GIT_PATH_REBASE_MERGE)
                   THEN [s1 EXCEPT !.pc = "pull"]
                   ELSE IF Throws(s2, GIT_PATH_REBASE_APPLY)
                   THEN [s2 EXCEPT !.pc = "pull"]
                   ELSE IF s2.rebaseMerge \/ s2.rebaseApply
                   THEN processExit0(s2)
                   ELSE [s2 EXCEPT !.pc = "pull"]
    /\ UNCHANGED << hostVars, engineVars, patchVars, last, strVars >>

Pull ==
    /\ sync.pc = "pull"
    /\ sync' = LET s == runGit(sync, PULL_REBASE_AUTOSTASH)
               IN  IF Throws(s, PULL_REBASE_AUTOSTASH)
                   THEN outerCatch(tryAbortRebase(s))
                   ELSE [s EXCEPT !.pc = "ended", !.exit = << 0 >>]
    /\ UNCHANGED << hostVars, engineVars, patchVars, last, strVars >>

InitSync ==
    /\ InitProgram
    /\ mediaEngineOk = TRUE
    /\ loaded = Targets
    /\ pin = << >>
    /\ pout = NoString
    /\ sync \in [ pc : { "shouldSkip" },
                  CI : EnvValues,
                  VENCORD_AUTO_SYNC : EnvValues,
                  workTree : WorkTreeAnswers,
                  porcelain : PorcelainOutputs,
                  branch : Branches,
                  rebaseMerge : BOOLEAN,
                  rebaseApply : BOOLEAN,
                  throws : SUBSET FailingCommands,
                  git : { << >> },
                  exit : { << >> },
                  caught : { FALSE } ]

NextSync ==
    \/ SkipCheck
    \/ WorkTreeCheck
    \/ StatusCheck
    \/ BranchCheck
    \/ RebaseCheck
    \/ Pull

SpecSync == InitSync /\ [][NextSync]_vars

----------------------------------------------------------------------------
(* C24: the guards of the auto-sync script (SpecSync) *)

Pulled == PULL_REBASE_AUTOSTASH \in Range(sync.git)

Finished == sync.pc \in { "exited", "ended" }

\* the guard commands, in the order of the script
GuardCommands == << IS_INSIDE_WORK_TREE, STATUS_PORCELAIN, ABBREV_REF_HEAD,
                    GIT_PATH_REBASE_MERGE, GIT_PATH_REBASE_APPLY >>

\* the guards as the claim words them
GuardsAsClaimed ==
    /\ sync.CI = Undefined
    /\ sync.VENCORD_AUTO_SYNC # JSString(<<"0">>)
    /\ sync.workTree = "true"
    /\ sync.porcelain = << >>
    /\ sync.branch = "main"
    /\ ~(sync.rebaseMerge \/ sync.rebaseApply)

\* the guards as the script tests them: CI is tested for truthiness, the
\* work-tree command for its exit status only, and a rebase check that
\* cannot be carried out is ignored
GuardsAsTested ==
    /\ sync.CI \in { Undefined, JSString(<< >>) }
    /\ sync.VENCORD_AUTO_SYNC # JSString(<<"0">>)
    /\ sync.workTree # "fatal"
    /\ sync.porcelain = << >>
    /\ sync.branch = "main"
    /\ \/ ~(sync.rebaseMerge \/ sync.rebaseApply)
       \/ GIT_PATH_REBASE_MERGE \in sync.throws
       \/ GIT_PATH_REBASE_APPLY \in sync.throws

\* the pull is the first command after the guard commands, which ran in the
\* order of the script up to the point where the rebase check stopped
PullFollowsGuardCommands ==
    \E n \in { 4, 5 } :
        /\ Len(sync.git) > n
        /\ SubSeq(sync.git, 1, n) = SubSeq(GuardCommands, 1, n)
        /\ sync.git[n + 1] = PULL_REBASE_AUTOSTASH
        /\ n = 4 <=> GIT_PATH_REBASE_MERGE \in sync.throws

\* C24 as stated: git pull runs only after every guard passed, in the order
\* CI unset and VENCORD_AUTO_SYNC not "0", inside a work tree, clean status,
\* branch main, no rebase in progress; when a guard fails no pull is
\* attempted and the script exits with status 0.
C24_PullOnlyAfterGuards ==
    /\ Pulled => GuardsAsClaimed /\ PullFollowsGuardCommands
    /\ (Finished /\ ~GuardsAsClaimed) => (~Pulled /\ sync.exit = << 0 >>)

\* C24, amended: git pull runs only after, in this order, CI was found unset
\* or empty and VENCORD_AUTO_SYNC not "0", `git rev-parse
\* --is-inside-work-tree` exited with status 0 (whatever it printed), the
\* status empty, the branch main, and the rebase check either found no
\* rebase in progress or could not be carried out; when one of these guards
\* fails no pull is attempted and the script exits with status 0.
C24_PullOnlyAfterTestedGuards ==
    /\ Pulled => GuardsAsTested /\ PullFollowsGuardCommands
    /\ (Finished /\ ~GuardsAsTested) => (~Pulled /\ sync.exit = << 0 >>)

\* the script ran all five guard commands and then the pull, with CI set to
\* the empty string and with "false" printed by the work-tree command
C24_Witness ==
    /\ sync.pc = "ended"
    /\ sync.git = GuardCommands \o << PULL_REBASE_AUTOSTASH >>
    /\ sync.CI = JSString(<< >>)
    /\ sync.workTree = "false"
    /\ ~sync.caught

====
